---- MODULE Spec2Model ----
(***************************************************************************)
(* A model of the embedding layer of servo_gui:                            *)
(*   - glutin_app::Window   (platform events -> WindowEvents, run loop)    *)
(*   - browser::Browser     (EmbedderMsgs -> window actions / WindowEvents)*)
(*   - run_with_window_builder (the callback run on every tick)            *)
(*   - script::fetch::FetchCanceller (the cancellation guard)              *)
(***************************************************************************)
EXTENDS Integers, Sequences, FiniteSets, TLC

VARIABLES
    pc,         \* position of Window::run and of the callback it invokes
    stop,       \* Window::run's local `stop`
    window,     \* the fields of glutin_app::Window
    gl,         \* the platform window (GlWindow) behind Window.window, and opts
    browser,    \* the fields of browser::Browser
    cb,         \* the callback's locals: win_events, need_resize, servo_events
    servo,      \* the engine as seen across its message boundary
    budget,     \* platform events / engine notifications still to come
    tick_log,   \* the calls made by the callback in the current tick, in order
    canceller,  \* FetchCanceller.cancel_chan, and whether the guard is alive
    chans,      \* the ipc channels created by FetchCanceller::initialize
    fetch_log   \* the channel operations made by the FetchCanceller, in order

vars == << pc, stop, window, gl, browser, cb, servo, budget, tick_log,
           canceller, chans, fetch_log >>

loop_vars == << pc, stop, window, gl, browser, cb, servo, budget, tick_log >>
fetch_vars == << canceller, chans, fetch_log >>

(***************************************************************************)
(* Bounds of the model.                                                    *)
(***************************************************************************)
MaxPlatformEvents == 3   \* platform events delivered over a run
MaxPoll == 2             \* platform events returned by one poll_events
MaxNotifs == 2           \* engine notifications delivered over a run
MaxBatch == 2            \* notifications in one servo.get_events() batch
MaxCalls == 5            \* calls made on FetchCancellers over a run
MaxTabs == 3             \* browsers on the coordinator's stack

None == "None"

\* Option<BrowserId>: NoId is None, SomeId(id) is Some(id).
NoId == << >>
SomeId(id) == << id >>

Last(s) == s[Len(s)]

RECURSIVE SeqsUpTo(_, _)
SeqsUpTo(S, n) ==
    IF n = 0 THEN { << >> }
    ELSE LET shorter == SeqsUpTo(S, n - 1)
         IN  shorter \cup { Append(s, x) : s \in shorter, x \in S }

Min(a, b) == IF a <= b THEN a ELSE b
Abs(x) == IF x < 0 THEN -x ELSE x

(***************************************************************************)
(* Program constants.                                                      *)
(***************************************************************************)
LINE_HEIGHT == 38
ClickThreshold == 10

(***************************************************************************)
(* glutin_app::keyutils (not among the sources; modelled on a small key    *)
(* set from how window.rs and browser.rs use it).                          *)
(***************************************************************************)
VirtualKeyCodes == { "A", "B", "Escape", "PageDown", "Unlabeled" }

is_printable(code) == code \in { "A", "B" }

\* Ok(key) for the codes that have a script key, Err otherwise.
winit_key_to_script_key(code) ==
    IF code \in { "A", "B", "Escape", "PageDown" } THEN [ok |-> TRUE, key |-> code]
    ELSE [ok |-> FALSE, key |-> None]

\* Some(key) for the characters that name a key, None otherwise.
char_to_script_key(ch) ==
    CASE ch = "a" -> "A"
      [] ch = "b" -> "B"
      [] ch = "+" -> "Equal"
      [] ch = "-" -> "Minus"
      [] ch = "0" -> "Num0"
      [] OTHER -> None

CMD_OR_CONTROL == { "CONTROL" }

(***************************************************************************)
(* WindowEvent: the events handed to the engine.                           *)
(***************************************************************************)
EvResize == [type |-> "Resize"]
EvQuit == [type |-> "Quit"]
EvIdle == [type |-> "Idle"]
EvRefresh == [type |-> "Refresh"]
EvKey(ch, key, state, mods) ==
    [type |-> "KeyEvent", ch |-> ch, key |-> key, state |-> state, mods |-> mods]
EvMouse(kind, point) == [type |-> "Mouse", kind |-> kind, button |-> "Left", point |-> point]
EvMouseMove(point) == [type |-> "MouseMove", point |-> point]
EvScroll(location, point, phase) ==
    [type |-> "Scroll", location |-> location, point |-> point, phase |-> phase]
EvTouch(phase, id, point) == [type |-> "Touch", phase |-> phase, id |-> id, point |-> point]
EvSelectBrowser(id) == [type |-> "SelectBrowser", id |-> id]
EvZoom(kind) == [type |-> kind]
EvSendError(id, reason) == [type |-> "SendError", id |-> id, reason |-> reason]

ScrollDelta(dx, dy) == [kind |-> "Delta", dx |-> dx, dy |-> dy]
ScrollStart == [kind |-> "Start", dx |-> 0, dy |-> 0]
ScrollEnd == [kind |-> "End", dx |-> 0, dy |-> 0]

(***************************************************************************)
(* glutin_app::Window                                                      *)
(***************************************************************************)
WindowNew ==
    [ event_queue       |-> << >>,
      inner_size        |-> << 1, 1 >>,
      mouse_down_button |-> None,
      mouse_down_point  |-> << 0, 0 >>,
      mouse_pos         |-> << 0, 0 >>,
      key_modifiers     |-> {},
      last_pressed_key  |-> None,
      animation_state   |-> "Idle",
      fullscreen        |-> FALSE,
      suspended         |-> FALSE ]

GlWindowNew ==
    [ hidpi         |-> 1,
      title         |-> "",
      position      |-> << 0, 0 >>,
      inner_size    |-> << 1, 1 >>,
      cursor        |-> "Default",
      fullscreen_toggles |-> 0,
      headless      |-> FALSE ]

push(w, e) == [w EXCEPT !.event_queue = Append(@, e)]

\* A get_events that hands out a copy of the queue and leaves the queue as it is.
get_events_window_keeps_queue(w) == w

\* Window::get_events's effect on the window: the queue is replaced by an empty one.
get_events_window(w) == [w EXCEPT !.event_queue = << >>]

\* Window::get_events's result.
get_events_result(w) == w.event_queue

\* An is_animating that does not look at the suspended flag.
is_animating_while_suspended(w) == w.animation_state = "Animating"

\* Window::is_animating
is_animating(w) == w.animation_state = "Animating" /\ ~w.suspended

set_animation_state(w, state) == [w EXCEPT !.animation_state = state]

toggle_modifier(w, modifier, pressed) ==
    [w EXCEPT !.key_modifiers = IF pressed THEN @ \cup {modifier} ELSE @ \ {modifier}]

toggle_keyboard_modifiers(w, mods) ==
    toggle_modifier(
        toggle_modifier(
            toggle_modifier(
                toggle_modifier(w, "CONTROL", mods.ctrl),
                "SHIFT", mods.shift),
            "ALT", mods.alt),
        "SUPER", mods.logo)

handle_received_character(w, ch) ==
    IF w.last_pressed_key = None THEN w
    ELSE LET last_key == w.last_pressed_key
             k == char_to_script_key(ch)
             key == IF k # None THEN k ELSE last_key
             c == IF k # None THEN ch ELSE None
         IN  push([w EXCEPT !.last_pressed_key = None],
                  EvKey(c, key, "Pressed", w.key_modifiers))

handle_keyboard_input(w, element_state, code, mods) ==
    LET w1 == toggle_keyboard_modifiers(w, mods)
        r == winit_key_to_script_key(code)
    IN  IF ~r.ok THEN w1
        ELSE IF element_state = "Pressed" /\ is_printable(code)
             THEN [w1 EXCEPT !.last_pressed_key = r.key]
             ELSE push([w1 EXCEPT !.last_pressed_key = None],
                       EvKey(None, r.key, element_state, w1.key_modifiers))

\* A comparison that lets a release at the threshold count as a click.
within_click_distance_inclusive(anchor, coords, hidpi) ==
    LET dx == anchor[1] - coords[1]
        dy == anchor[2] - coords[2]
        max == ClickThreshold * hidpi
    IN  dx * dx + dy * dy <= max * max

\* pixel_dist < max_pixel_dist, both sides squared (coordinates are integers).
within_click_distance(anchor, coords, hidpi) ==
    LET dx == anchor[1] - coords[1]
        dy == anchor[2] - coords[2]
        max == ClickThreshold * hidpi
    IN  dx * dx + dy * dy < max * max

\* A handle_mouse that does not compare the released button with the recorded one.
handle_mouse_any_button(w, g, button, action, coords) ==
    IF action = "Pressed"
    THEN push([w EXCEPT !.mouse_down_point = coords, !.mouse_down_button = button],
              EvMouse("MouseDown", coords))
    ELSE IF w.mouse_down_button # None
            /\ within_click_distance(w.mouse_down_point, coords, g.hidpi)
         THEN push(push(w, EvMouse("MouseUp", coords)), EvMouse("Click", coords))
         ELSE push(w, EvMouse("MouseUp", coords))

handle_mouse(w, g, button, action, coords) ==
    IF action = "Pressed"
    THEN push([w EXCEPT !.mouse_down_point = coords, !.mouse_down_button = button],
              EvMouse("MouseDown", coords))
    ELSE IF w.mouse_down_button # None /\ w.mouse_down_button = button
            /\ within_click_distance(w.mouse_down_point, coords, g.hidpi)
         THEN push(push(w, EvMouse("MouseUp", coords)), EvMouse("Click", coords))
         ELSE push(w, EvMouse("MouseUp", coords))

to_physical(p, hidpi) == << p[1] * hidpi, p[2] * hidpi >>

\* A phase conversion that reports every touch as a move.
winit_phase_to_touch_event_type_always_move(phase) == "Move"

winit_phase_to_touch_event_type(phase) ==
    CASE phase = "Started" -> "Down"
      [] phase = "Moved" -> "Move"
      [] phase = "Ended" -> "Up"
      [] phase = "Cancelled" -> "Cancel"

\* A snapping that prefers the horizontal axis on a tie.
snap_scroll_horizontal_on_tie(dx, dy) ==
    IF Abs(dy) > Abs(dx) THEN ScrollDelta(0, dy) ELSE ScrollDelta(dx, 0)

\* The scroll delta after snapping to the major axis.
snap_scroll(dx, dy) ==
    IF Abs(dy) >= Abs(dx) THEN ScrollDelta(0, dy) ELSE ScrollDelta(dx, 0)

\* A Resized arm that queues a Resize event whatever the size.
resized_always_queues(w, g, size) ==
    push([w EXCEPT !.inner_size = to_physical(size, g.hidpi)], EvResize)

\* winit::WindowEvent::Resized(size)
resized(w, g, size) ==
    LET new_size == to_physical(size, g.hidpi)
    IN  IF w.inner_size # new_size
        THEN push([w EXCEPT !.inner_size = new_size], EvResize)
        ELSE w

\* Window::winit_event_to_servo_event: the window after platform event e.
winit_event_to_servo_event(w, g, e) ==
    CASE e.type = "ReceivedCharacter" -> handle_received_character(w, e.ch)
      [] e.type = "KeyboardInput" ->
            IF e.virtual_keycode = None THEN w
            ELSE handle_keyboard_input(w, e.state, e.virtual_keycode, e.modifiers)
      [] e.type = "MouseInput" ->
            IF e.button \in { "Left", "Right" }
            THEN handle_mouse(w, g, e.button, e.state, w.mouse_pos)
            ELSE w
      [] e.type = "CursorMoved" ->
            LET pos == to_physical(e.position, g.hidpi)
            IN  push([w EXCEPT !.mouse_pos = pos], EvMouseMove(pos))
      [] e.type = "MouseWheel" ->
            LET d == IF e.delta.kind = "LineDelta"
                     THEN << e.delta.x, e.delta.y * LINE_HEIGHT >>
                     ELSE to_physical(<< e.delta.x, e.delta.y >>, g.hidpi)
            IN  push(w, EvScroll(snap_scroll(d[1], d[2]), w.mouse_pos,
                                 winit_phase_to_touch_event_type(e.phase)))
      [] e.type = "Touch" ->
            push(w, EvTouch(winit_phase_to_touch_event_type(e.phase), e.id,
                            to_physical(e.location, g.hidpi)))
      [] e.type = "Refresh" -> push(w, EvRefresh)
      [] e.type = "CloseRequested" -> push(w, EvQuit)
      [] e.type = "Resized" -> resized(w, g, e.size)
      [] e.type = "Suspended" ->
            IF ~e.suspended
            THEN push([w EXCEPT !.suspended = FALSE], EvIdle)
            ELSE [w EXCEPT !.suspended = TRUE]
      [] e.type = "Awakened" -> push(w, EvIdle)
      [] OTHER -> w

\* The platform window after platform event e (a resize reaches GlWindow::resize).
winit_event_gl(g, e) ==
    IF e.type = "Resized" THEN [g EXCEPT !.inner_size = e.size] ELSE g

RECURSIVE translate_all(_, _, _)
\* poll_events: every pending event goes through winit_event_to_servo_event.
translate_all(w, g, evs) ==
    IF evs = << >> THEN w
    ELSE translate_all(winit_event_to_servo_event(w, g, Head(evs)),
                       winit_event_gl(g, Head(evs)), Tail(evs))

RECURSIVE gl_after_all(_, _)
gl_after_all(g, evs) ==
    IF evs = << >> THEN g ELSE gl_after_all(winit_event_gl(g, Head(evs)), Tail(evs))

(***************************************************************************)
(* EmbedderMsg: the notifications of the engine.  A reply channel is       *)
(* [chan, open]: its identity and whether its receiver still exists.       *)
(***************************************************************************)
Msg(type) == [type |-> type]
MsgShutdown == Msg("Shutdown")
MsgCloseBrowser == Msg("CloseBrowser")
MsgBrowserCreated(id) == [type |-> "BrowserCreated", id |-> id]
MsgChangePageTitle(title) == [type |-> "ChangePageTitle", title |-> title]
MsgStatus(status) == [type |-> "Status", status |-> status]
MsgKeyEvent(ch, key, state, mods) ==
    [type |-> "KeyEvent", ch |-> ch, key |-> key, state |-> state, mods |-> mods]
IpcSender(chan, open) == [chan |-> chan, open |-> open]
MsgReply(type, sender) == [type |-> type, sender |-> sender]
MsgAllowNavigation(url, sender) ==
    [type |-> "AllowNavigation", url |-> url, sender |-> sender]
MsgGetSelectedBluetoothDevice(devices, sender) ==
    [type |-> "GetSelectedBluetoothDevice", devices |-> devices, sender |-> sender]
MsgAlert(message, sender) == [type |-> "Alert", message |-> message, sender |-> sender]
\* chosen is what the user will pick in the file chooser: the paths, none if
\* the chooser is dismissed.
MsgSelectFiles(multiple, sender, chosen) ==
    [type |-> "SelectFiles", multiple |-> multiple, sender |-> sender, chosen |-> chosen]
MsgSetFullscreenState(state) == [type |-> "SetFullscreenState", state |-> state]
MsgMoveTo(point) == [type |-> "MoveTo", point |-> point]
MsgResizeTo(size) == [type |-> "ResizeTo", size |-> size]
MsgSetCursor(cursor) == [type |-> "SetCursor", cursor |-> cursor]
MsgNewFavicon(url) == [type |-> "NewFavicon", url |-> url]

(***************************************************************************)
(* browser::Browser.  Its handlers act on the browser, on the Window it    *)
(* holds and on the platform window behind it: st = [browser, window, gl]. *)
(* browser.replies and browser.dialogs record the sends on reply channels  *)
(* and the dialogs shown, in order; browser.handled the messages matched.  *)
(* A dialog is recorded with the number of replies sent before it was      *)
(* shown: the caller is blocked until the dialog is dismissed.             *)
(* browser.workers records the spawn and the join of every dialog thread,  *)
(* each with the notifications matched and the replies sent so far.        *)
(***************************************************************************)
BrowserNew ==
    [ browser_id         |-> NoId,
      browsers           |-> << >>,
      title              |-> None,
      status             |-> None,
      favicon            |-> None,
      loading_state      |-> None,
      event_queue        |-> << >>,
      shutdown_requested |-> FALSE,
      replies            |-> << >>,
      dialogs            |-> << >>,
      workers            |-> << >>,
      handled            |-> << >> ]

bpush(st, e) == [st EXCEPT !.browser.event_queue = Append(@, e)]

\* A Browser::get_events that hands out the queue and keeps it.
get_events_browser_keeps_queue(b) == b

\* Browser::get_events's effect on the browser.
get_events_browser(b) == [b EXCEPT !.event_queue = << >>]

\* Browser::get_events's result.
get_events_browser_result(b) == b.event_queue

\* Browser::handle_window_events: every event is pushed, in order.
handle_window_events(b, events) == [b EXCEPT !.event_queue = @ \o events]

shutdown_requested(b) == b.shutdown_requested

Window_set_title(st, title) == [st EXCEPT !.gl.title = title]

\* point.to_f32() / hidpi, as a logical position
to_logical(p, hidpi) == << p[1] \div hidpi, p[2] \div hidpi >>

Window_set_position(st, point) ==
    [st EXCEPT !.gl.position = to_logical(point, st.gl.hidpi)]

Window_set_inner_size(st, size) ==
    [st EXCEPT !.gl.inner_size = to_logical(size, st.gl.hidpi)]

Window_set_cursor(st, cursor) == [st EXCEPT !.gl.cursor = cursor]

Window_set_fullscreen(st, state) ==
    LET st1 == IF st.window.fullscreen # state
               THEN [st EXCEPT !.gl.fullscreen_toggles = 1 - @]
               ELSE st
    IN  [st1 EXCEPT !.window.fullscreen = state]

page_height(st) == st.gl.inner_size[2] * st.gl.hidpi

\* sender.send(value): delivered iff the receiver still exists.
send_reply(st, sender, value) ==
    [st EXCEPT !.browser.replies =
        Append(@, [chan |-> sender.chan, value |-> value, ok |-> sender.open])]

scroll_window_from_key(st, scroll_location, phase) ==
    bpush(st, EvScroll(scroll_location, << 0, 0 >>, phase))

\* The match (mods, ch, key) of Browser::handle_key_from_servo.
\* An accelerator that fires whenever its modifiers are held, others or not.
accelerator_with_more_modifiers(mods, accel) == accel \subseteq mods

\* The modifiers compared with an accelerator's: `mods == accel`, and the
\* pattern `(accel, ..)` of the match.
accelerator(mods, accel) == mods = accel

key_remap(st, ch, key, mods) ==
    CASE ch = "+" ->
            IF accelerator(mods \ {"SHIFT"}, CMD_OR_CONTROL) THEN bpush(st, EvZoom("ZoomIn"))
            ELSE IF accelerator(mods \ {"SHIFT"}, CMD_OR_CONTROL \cup {"ALT"})
                 THEN bpush(st, EvZoom("PinchZoomIn"))
                 ELSE st
      [] ch = "-" /\ accelerator(mods, CMD_OR_CONTROL) -> bpush(st, EvZoom("ZoomOut"))
      [] ch = "-" /\ ~accelerator(mods, CMD_OR_CONTROL)
                  /\ accelerator(mods, CMD_OR_CONTROL \cup {"ALT"}) ->
            bpush(st, EvZoom("PinchZoomOut"))
      [] ch = "0" /\ accelerator(mods, CMD_OR_CONTROL) -> bpush(st, EvZoom("ResetZoom"))
      [] mods = {} /\ ch = None /\ key = "PageDown" ->
            scroll_window_from_key(st, ScrollDelta(0, 2 * LINE_HEIGHT - page_height(st)), "Move")
      [] mods = {} /\ ch = None /\ key = "PageUp" ->
            scroll_window_from_key(st, ScrollDelta(0, page_height(st) - 2 * LINE_HEIGHT), "Move")
      [] mods = {} /\ ch = None /\ key = "Home" ->
            scroll_window_from_key(st, ScrollStart, "Move")
      [] mods = {} /\ ch = None /\ key = "End" ->
            scroll_window_from_key(st, ScrollEnd, "Move")
      [] mods = {} /\ ch = None /\ key = "Up" ->
            scroll_window_from_key(st, ScrollDelta(0, 3 * LINE_HEIGHT), "Move")
      [] mods = {} /\ ch = None /\ key = "Down" ->
            scroll_window_from_key(st, ScrollDelta(0, -3 * LINE_HEIGHT), "Move")
      [] mods = {} /\ ch = None /\ key = "Left" ->
            scroll_window_from_key(st, ScrollDelta(LINE_HEIGHT, 0), "Move")
      [] mods = {} /\ ch = None /\ key = "Right" ->
            scroll_window_from_key(st, ScrollDelta(-LINE_HEIGHT, 0), "Move")
      [] OTHER -> st

\* A handle_key_from_servo that does not look at the key state.
handle_key_from_servo_any_state(st, ch, key, state, mods) == key_remap(st, ch, key, mods)

\* Browser::handle_key_from_servo
handle_key_from_servo(st, ch, key, state, mods) ==
    IF state = "Pressed" THEN st ELSE key_remap(st, ch, key, mods)

\* What the coordinator has done when a dialog thread is spawned or joined.
Worker(st, op, kind) ==
    [op |-> op, kind |-> kind, handled |-> Len(st.browser.handled),
     replies |-> Len(st.browser.replies)]

\* A dialog on a thread that is left running.
show_dialog_detached(st, kind) ==
    [st EXCEPT !.browser.dialogs =
                   Append(@, [kind |-> kind, replies_before |-> Len(st.browser.replies)]),
               !.browser.workers = Append(@, Worker(st, "spawn", kind))]

\* A blocking dialog on a worker thread that the caller joins.
show_dialog(st, kind) ==
    [st EXCEPT !.browser.dialogs =
                   Append(@, [kind |-> kind, replies_before |-> Len(st.browser.replies)]),
               !.browser.workers =
                   @ \o << Worker(st, "spawn", kind), Worker(st, "join", kind) >>]

\* An Alert arm that throws the result of the send away.
alert_without_error_report(st, browser_id, msg) ==
    send_reply(show_dialog(st, "alert"), msg.sender, "unit")

\* EmbedderMsg::Alert(message, sender)
alert(st, browser_id, msg) ==
    LET sent == send_reply(show_dialog(st, "alert"), msg.sender, "unit")
    IN  IF msg.sender.open THEN sent
        ELSE bpush(sent, EvSendError(browser_id, "Failed to send Alert response"))

\* EmbedderMsg::AllowUnload, AllowNavigation, AllowOpeningBrowser
allow(st, msg) == send_reply(st, msg.sender, FALSE)

\* A BrowserCreated arm that always selects the new browser.
browser_created_always_active(st, new_browser_id) ==
    bpush([st EXCEPT !.browser.browsers = Append(@, new_browser_id),
                     !.browser.browser_id = SomeId(new_browser_id)],
          EvSelectBrowser(new_browser_id))

\* EmbedderMsg::BrowserCreated(new_browser_id)
browser_created(st, new_browser_id) ==
    LET s1 == [st EXCEPT !.browser.browsers = Append(@, new_browser_id)]
        s2 == IF s1.browser.browser_id = NoId
              THEN [s1 EXCEPT !.browser.browser_id = SomeId(new_browser_id)]
              ELSE s1
    IN  bpush(s2, EvSelectBrowser(new_browser_id))

\* Vec::pop
pop(v) == IF v = << >> THEN << >> ELSE SubSeq(v, 1, Len(v) - 1)

\* A CloseBrowser arm that leaves browser_id as it is.
close_browser_keeps_browser_id(st) ==
    LET s1 == [st EXCEPT !.browser.browsers = pop(@)]
    IN  IF s1.browser.browsers # << >>
        THEN bpush(s1, EvSelectBrowser(Last(s1.browser.browsers)))
        ELSE bpush(s1, EvQuit)

\* EmbedderMsg::CloseBrowser
\* A CloseBrowser arm that queues nothing when no browser is left.
close_browser_quiet_when_empty(st) ==
    LET s1 == [st EXCEPT !.browser.browsers = pop(@)]
    IN  IF s1.browser.browsers # << >>
        THEN LET prev_browser_id == Last(s1.browser.browsers)
             IN  bpush([s1 EXCEPT !.browser.browser_id = SomeId(prev_browser_id)],
                       EvSelectBrowser(prev_browser_id))
        ELSE s1

close_browser(st) ==
    LET s1 == [st EXCEPT !.browser.browsers = pop(@)]
    IN  IF s1.browser.browsers # << >>
        THEN LET prev_browser_id == Last(s1.browser.browsers)
             IN  bpush([s1 EXCEPT !.browser.browser_id = SomeId(prev_browser_id)],
                       EvSelectBrowser(prev_browser_id))
        ELSE bpush(s1, EvQuit)

\* EmbedderMsg::GetSelectedBluetoothDevice(_devices, _sender): the empty arm.
get_selected_bluetooth_device(st, msg) == st

\* Option<Vec<String>>
NoFiles == << >>
SomeFiles(files) == << files >>

\* get_selected_files: the chooser is shown on a worker thread and joined.
get_selected_files(st, multiple_files, chosen) == show_dialog(st, "files")

\* What get_selected_files returns: the paths of open_file_dialog_multi, the
\* one path of open_file_dialog as a vector, None if the chooser was dismissed.
get_selected_files_result(multiple_files, chosen) ==
    IF chosen = << >> THEN NoFiles
    ELSE IF multiple_files THEN SomeFiles(chosen)
         ELSE SomeFiles(<< chosen[1] >>)

\* A SelectFiles arm that throws the result of the send away.
select_files_without_error_report(st, msg) ==
    LET asked == get_selected_files(st, msg.multiple, msg.chosen)
        picked == get_selected_files_result(msg.multiple, msg.chosen)
    IN  IF st.gl.headless \/ picked = NoFiles
        THEN send_reply(asked, msg.sender, NoFiles)
        ELSE send_reply(asked, msg.sender, picked)

\* EmbedderMsg::SelectFiles(patterns, multiple_files, sender): the scrutinee
\* of the match is built first, so get_selected_files runs in every mode.
select_files(st, msg) ==
    LET headless == st.gl.headless
        asked == get_selected_files(st, msg.multiple, msg.chosen)
        picked == get_selected_files_result(msg.multiple, msg.chosen)
        sent == IF headless \/ picked = NoFiles
                THEN send_reply(asked, msg.sender, NoFiles)
                ELSE send_reply(asked, msg.sender, picked)
    IN  IF msg.sender.open THEN sent
        ELSE bpush(sent, EvSendError(NoId, "Failed to send SelectFiles response"))

\* One arm of the match in Browser::handle_servo_events.
handle_servo_event(st, browser_id, msg) ==
    LET s == [st EXCEPT !.browser.handled = Append(@, msg)]
    IN  CASE msg.type = "Status" -> [s EXCEPT !.browser.status = msg.status]
          [] msg.type = "ChangePageTitle" ->
                LET shown == IF msg.title # None /\ msg.title # "" THEN msg.title
                             ELSE "Untitled"
                IN  Window_set_title([s EXCEPT !.browser.title = msg.title],
                                     << shown, " - Servo" >>)
          [] msg.type = "MoveTo" -> Window_set_position(s, msg.point)
          [] msg.type = "ResizeTo" -> Window_set_inner_size(s, msg.size)
          [] msg.type = "Alert" -> alert(s, browser_id, msg)
          [] msg.type \in { "AllowUnload", "AllowNavigation", "AllowOpeningBrowser" } ->
                allow(s, msg)
          [] msg.type = "BrowserCreated" -> browser_created(s, msg.id)
          [] msg.type = "KeyEvent" ->
                handle_key_from_servo(s, msg.ch, msg.key, msg.state, msg.mods)
          [] msg.type = "SetCursor" -> Window_set_cursor(s, msg.cursor)
          [] msg.type = "NewFavicon" -> [s EXCEPT !.browser.favicon = msg.url]
          [] msg.type = "HeadParsed" -> [s EXCEPT !.browser.loading_state = "Loading"]
          [] msg.type = "HistoryChanged" -> s
          [] msg.type = "SetFullscreenState" -> Window_set_fullscreen(s, msg.state)
          [] msg.type = "LoadStart" -> [s EXCEPT !.browser.loading_state = "Connecting"]
          [] msg.type = "LoadComplete" -> [s EXCEPT !.browser.loading_state = "Loaded"]
          [] msg.type = "CloseBrowser" -> close_browser(s)
          [] msg.type = "Shutdown" -> [s EXCEPT !.browser.shutdown_requested = TRUE]
          [] msg.type = "Panic" -> s
          [] msg.type = "GetSelectedBluetoothDevice" -> get_selected_bluetooth_device(s, msg)
          [] msg.type = "SelectFiles" -> select_files(s, msg)
          [] msg.type \in { "ShowIME", "HideIME" } -> s

\* Browser::handle_servo_events: the loop over the batch.
RECURSIVE handle_servo_events_loop(_, _)
handle_servo_events_loop(st, events) ==
    IF events = << >> THEN st
    ELSE LET e == Head(events)
         IN  handle_servo_events_loop(handle_servo_event(st, e.browser_id, e.msg),
                                      Tail(events))

\* A loop that returns once it has handled the shutdown notification.
RECURSIVE loop_until_shutdown(_, _)
loop_until_shutdown(st, events) ==
    IF events = << >> THEN st
    ELSE LET e == Head(events)
             st1 == handle_servo_event(st, e.browser_id, e.msg)
         IN  IF e.msg.type = "Shutdown" THEN st1
             ELSE loop_until_shutdown(st1, Tail(events))

handle_servo_events_stop_at_shutdown(st, events) ==
    loop_until_shutdown([st EXCEPT !.browser.handled = << >>], events)

\* Browser::handle_servo_events
handle_servo_events(st, events) ==
    handle_servo_events_loop([st EXCEPT !.browser.handled = << >>], events)

(***************************************************************************)
(* The inputs of the run loop: what the platform and the engine may send.  *)
(***************************************************************************)
NoMods == [ctrl |-> FALSE, shift |-> FALSE, alt |-> FALSE, logo |-> FALSE]

PlResized(size) == [type |-> "Resized", size |-> size]
PlSuspended(b) == [type |-> "Suspended", suspended |-> b]
PlKeyboardInput(state, code, mods) ==
    [type |-> "KeyboardInput", state |-> state, virtual_keycode |-> code, modifiers |-> mods]
PlReceivedCharacter(ch) == [type |-> "ReceivedCharacter", ch |-> ch]
PlCloseRequested == [type |-> "CloseRequested"]
PlMouseInput(state, button) == [type |-> "MouseInput", state |-> state, button |-> button]
PlCursorMoved(position) == [type |-> "CursorMoved", position |-> position]
LineDelta(x, y) == [kind |-> "LineDelta", x |-> x, y |-> y]
PixelDelta(x, y) == [kind |-> "PixelDelta", x |-> x, y |-> y]
PlMouseWheel(delta, phase) == [type |-> "MouseWheel", delta |-> delta, phase |-> phase]
PlTouch(phase, id, location) ==
    [type |-> "Touch", phase |-> phase, id |-> id, location |-> location]
PlRefresh == [type |-> "Refresh"]
PlAwakened == [type |-> "Awakened"]

PlatformEvents ==
    { PlResized(<< 1, 1 >>), PlResized(<< 2, 2 >>), PlCloseRequested, PlAwakened,
      PlSuspended(TRUE), PlSuspended(FALSE),
      PlKeyboardInput("Pressed", "A", NoMods) }

\* The browser ids the engine hands out.
BrowserIds == { 1, 2 }

Notif(browser_id, msg) == [browser_id |-> browser_id, msg |-> msg]

EngineNotifs ==
    { Notif(NoId, MsgShutdown), Notif(SomeId(1), MsgCloseBrowser) }
    \cup { Notif(NoId, MsgBrowserCreated(id)) : id \in BrowserIds }

\* The batches servo.get_events() may return when n notifications are still to come.
Batches(n) == SeqsUpTo(EngineNotifs, Min(MaxBatch, n))

AnimationStates == { "Idle", "Animating" }

(***************************************************************************)
(* Window::run and the callback of run_with_window_builder.                *)
(***************************************************************************)
CbNew ==
    [ from |-> None, polled |-> 0, win_events |-> << >>, need_resize |-> FALSE,
      servo_events |-> << >>, ret |-> FALSE ]

\* What the engine was handed in the current tick, and whether it ever was handed Quit.
ServoNew == [ received |-> << >>, repaints |-> 0, quit_received |-> FALSE ]

HasQuit(events) == \E i \in 1 .. Len(events) : events[i] = EvQuit

St == [browser |-> browser, window |-> window, gl |-> gl]

\* A need_resize that looks at the last event only.
need_resize_last_event(win_events) ==
    win_events # << >> /\ Last(win_events).type = "Resize"

\* win_events.iter().any(|e| e is Resize)
need_resize(win_events) == \E i \in 1 .. Len(win_events) : win_events[i].type = "Resize"

\* A guard that does not look at the queue.
invokes_callback_unless_suspended(w) == ~w.suspended

\* A guard that does not look at the suspended flag.
invokes_callback_on_any_event(w) == w.event_queue # << >>

\* The guard of the callback inside run_forever.
run_forever_invokes_callback(w) == w.event_queue # << >> /\ ~w.suspended

\* ControlFlow::Break from run_forever.
run_forever_breaks(s, w) == s \/ is_animating(w)

\* A loop that blocks in run_forever whatever the animation state.
run_branch_never_polls(w) == "run_forever"

\* The branch Window::run takes at the top of its loop.
run_branch(w) == IF is_animating(w) THEN "poll_events" ELSE "run_forever"

\* A loop without its `if stop { break; }`.
after_branch_without_break(s) == "loop"

\* After the loop's `if stop { break; }`.
after_branch(s) == IF s THEN "done" ELSE "loop"

LoopInit ==
    /\ pc = "loop"
    /\ stop = FALSE
    /\ window = WindowNew
    /\ gl = GlWindowNew
    /\ browser = BrowserNew
    /\ cb = CbNew
    /\ servo = ServoNew
    /\ budget = [platform |-> MaxPlatformEvents, engine |-> MaxNotifs]
    /\ tick_log = << >>

\* The Animating branch: poll_events translates what is pending, then the callback runs.
AnimatingPoll ==
    /\ pc = "loop"
    /\ run_branch(window) = "poll_events"
    /\ \E evs \in SeqsUpTo(PlatformEvents, Min(MaxPoll, budget.platform)) :
          /\ window' = translate_all(window, gl, evs)
          /\ gl' = gl_after_all(gl, evs)
          /\ budget' = [budget EXCEPT !.platform = @ - Len(evs)]
          /\ cb' = [CbNew EXCEPT !.from = "poll_events", !.polled = Len(evs)]
    /\ pc' = "callback"
    /\ UNCHANGED << stop, browser, servo, tick_log, fetch_vars >>

\* The Idle branch: run_forever is entered and blocks.
EnterRunForever ==
    /\ pc = "loop"
    /\ run_branch(window) = "run_forever"
    /\ pc' = "run_forever"
    /\ UNCHANGED << stop, window, gl, browser, cb, servo, budget, tick_log, fetch_vars >>

\* One platform event arrives inside run_forever.
RunForeverEvent ==
    /\ pc = "run_forever"
    /\ budget.platform > 0
    /\ \E e \in PlatformEvents :
          /\ window' = winit_event_to_servo_event(window, gl, e)
          /\ gl' = winit_event_gl(gl, e)
    /\ budget' = [budget EXCEPT !.platform = @ - 1]
    /\ IF run_forever_invokes_callback(window')
       THEN /\ pc' = "callback"
            /\ cb' = [CbNew EXCEPT !.from = "run_forever", !.polled = 1]
       ELSE /\ pc' = IF run_forever_breaks(stop, window') THEN after_branch(stop)
                     ELSE "run_forever"
            /\ cb' = cb
    /\ UNCHANGED << stop, browser, servo, tick_log, fetch_vars >>

\* window.get_events(), need_resize, browser.handle_window_events(win_events)
CbGetEvents ==
    /\ pc = "callback"
    /\ LET win_events == get_events_result(window)
       IN  /\ cb' = [cb EXCEPT !.win_events = win_events,
                               !.need_resize = need_resize(win_events)]
           /\ browser' = handle_window_events(browser, win_events)
    /\ window' = get_events_window(window)
    /\ pc' = "cb_servo_get"
    /\ UNCHANGED << stop, gl, servo, budget, tick_log, fetch_vars >>

\* let mut servo_events = servo.get_events();
CbServoGetEvents ==
    /\ pc = "cb_servo_get"
    /\ \E batch \in Batches(budget.engine) :
          /\ cb' = [cb EXCEPT !.servo_events = batch]
          /\ budget' = [budget EXCEPT !.engine = @ - Len(batch)]
    /\ tick_log' = Append(tick_log, "get")
    /\ pc' = "cb_handle"
    /\ UNCHANGED << stop, window, gl, browser, servo, fetch_vars >>

\* browser.handle_servo_events(servo_events);
CbHandleServoEvents ==
    /\ pc = "cb_handle"
    /\ LET st == handle_servo_events(St, cb.servo_events)
       IN  /\ browser' = st.browser
           /\ window' = st.window
           /\ gl' = st.gl
    /\ tick_log' = Append(tick_log, "handle")
    /\ pc' = "cb_forward"
    /\ UNCHANGED << stop, cb, servo, budget, fetch_vars >>

\* servo.handle_events(browser.get_events()); the engine may set the animation state.
CbForward ==
    /\ pc = "cb_forward"
    /\ servo' = [servo EXCEPT !.received = @ \o get_events_browser_result(browser),
                              !.quit_received =
                                  @ \/ HasQuit(get_events_browser_result(browser))]
    /\ browser' = get_events_browser(browser)
    /\ \E state \in AnimationStates : window' = set_animation_state(window, state)
    /\ tick_log' = Append(tick_log, "forward")
    /\ pc' = "cb_check"
    /\ UNCHANGED << stop, gl, cb, budget, fetch_vars >>

\* A shutdown check that does not leave the loop.
CbCheckShutdownKeepsPulling ==
    /\ pc = "cb_check"
    /\ tick_log' = Append(tick_log, "check")
    /\ pc' = "cb_pull"
    /\ UNCHANGED << stop, window, gl, browser, cb, servo, budget, fetch_vars >>

\* A check that also stops when a Quit event has just been handed to the engine.
CbCheckShutdownOrQuit ==
    /\ pc = "cb_check"
    /\ tick_log' = Append(tick_log, "check")
    /\ IF shutdown_requested(browser) \/ HasQuit(servo.received)
       THEN /\ cb' = [cb EXCEPT !.ret = TRUE]
            /\ pc' = "cb_return"
       ELSE /\ cb' = cb
            /\ pc' = "cb_pull"
    /\ UNCHANGED << stop, window, gl, browser, servo, budget, fetch_vars >>

\* if browser.shutdown_requested() { return true; }
CbCheckShutdown ==
    /\ pc = "cb_check"
    /\ tick_log' = Append(tick_log, "check")
    /\ IF shutdown_requested(browser)
       THEN /\ cb' = [cb EXCEPT !.ret = TRUE]
            /\ pc' = "cb_return"
       ELSE /\ cb' = cb
            /\ pc' = "cb_pull"
    /\ UNCHANGED << stop, window, gl, browser, servo, budget, fetch_vars >>

\* servo_events = servo.get_events(); if servo_events.is_empty() { break; }
CbPull ==
    /\ pc = "cb_pull"
    /\ \E batch \in Batches(budget.engine) :
          /\ cb' = [cb EXCEPT !.servo_events = batch]
          /\ budget' = [budget EXCEPT !.engine = @ - Len(batch)]
          /\ pc' = IF batch = << >> THEN "cb_repaint" ELSE "cb_handle"
    /\ tick_log' = Append(tick_log, "pull")
    /\ UNCHANGED << stop, window, gl, browser, servo, fetch_vars >>

\* A callback that reports stop once the engine has nothing more to say.
CbRepaintReturnsTrue ==
    /\ pc = "cb_repaint"
    /\ IF cb.need_resize
       THEN /\ servo' = [servo EXCEPT !.repaints = @ + 1]
            /\ tick_log' = Append(tick_log, "repaint")
       ELSE UNCHANGED << servo, tick_log >>
    /\ cb' = [cb EXCEPT !.ret = TRUE]
    /\ pc' = "cb_return"
    /\ UNCHANGED << stop, window, gl, browser, budget, fetch_vars >>

\* if need_resize { servo.repaint_synchronously(); } false
CbRepaint ==
    /\ pc = "cb_repaint"
    /\ IF cb.need_resize
       THEN /\ servo' = [servo EXCEPT !.repaints = @ + 1]
            /\ tick_log' = Append(tick_log, "repaint")
       ELSE UNCHANGED << servo, tick_log >>
    /\ cb' = [cb EXCEPT !.ret = FALSE]
    /\ pc' = "cb_return"
    /\ UNCHANGED << stop, window, gl, browser, budget, fetch_vars >>

\* stop = servo_callback(); then the branch's exit and `if stop { break; }`.
CbReturn ==
    /\ pc = "cb_return"
    /\ stop' = cb.ret
    /\ pc' = IF cb.from = "poll_events" THEN after_branch(stop')
             ELSE IF run_forever_breaks(stop', window) THEN after_branch(stop')
                  ELSE "run_forever"
    /\ cb' = CbNew
    /\ servo' = [ServoNew EXCEPT !.quit_received = servo.quit_received]
    /\ tick_log' = << >>
    /\ browser' = [browser EXCEPT !.handled = << >>]
    /\ UNCHANGED << window, gl, budget, fetch_vars >>

(***************************************************************************)
(* script::fetch::FetchCanceller.  A guard is f = [cancel_chan, chans,     *)
(* log]: cancel_chan is NoChan or SomeChan(c); chans[c] is channel c, with *)
(* the state of its receiver and the signals it was sent and it received;  *)
(* log records every call and every channel operation it makes, in order.  *)
(***************************************************************************)
NoChan == << >>
SomeChan(c) == << c >>

LogEntry(op, chan) == [op |-> op, chan |-> chan]
Call(op) == LogEntry(op, NoChan)

\* chan.send(()): an attempt; it is received iff the receiver still exists.
chan_send(f, c) ==
    [f EXCEPT !.chans[c].sent = @ + 1,
              !.chans[c].received = IF f.chans[c].rx = "open" THEN @ + 1 ELSE @,
              !.log = Append(@, LogEntry("send", SomeChan(c)))]

\* A cancel that signals through the stored sender and leaves it in place.
cancel_body_without_take(f) ==
    IF f.cancel_chan # NoChan THEN chan_send(f, f.cancel_chan[1]) ELSE f

\* A cancel that puts the sender back when its receiver is gone.
cancel_body_rearms_on_failure(f) ==
    IF f.cancel_chan # NoChan
    THEN chan_send([f EXCEPT !.cancel_chan =
                        IF f.chans[f.cancel_chan[1]].rx = "open" THEN NoChan ELSE @],
                   f.cancel_chan[1])
    ELSE f

\* The body of FetchCanceller::cancel.
cancel_body(f) ==
    IF f.cancel_chan # NoChan
    THEN chan_send([f EXCEPT !.cancel_chan = NoChan], f.cancel_chan[1])
    ELSE f

\* FetchCanceller::cancel
cancel(f) == cancel_body([f EXCEPT !.log = Append(@, Call("cancel"))])

\* ipc::channel(): channel Len(chans) + 1 is created.
ipc_channel(f) ==
    [f EXCEPT !.chans = Append(@, [rx |-> "open", sent |-> 0, received |-> 0]),
              !.log = Append(@, LogEntry("create", SomeChan(Len(f.chans) + 1)))]

\* An initialize that does not cancel the previous fetch.
initialize_without_cancel(f) ==
    LET f1 == ipc_channel([f EXCEPT !.log = Append(@, Call("initialize"))])
    IN  [f1 EXCEPT !.cancel_chan = SomeChan(Len(f1.chans))]

\* FetchCanceller::initialize
initialize(f) ==
    LET f0 == cancel_body([f EXCEPT !.log = Append(@, Call("initialize"))])
        f1 == ipc_channel(f0)
    IN  [f1 EXCEPT !.cancel_chan = SomeChan(Len(f1.chans))]

\* An ignore that signals before it lets go of the sender.
ignore_with_send(f) == cancel_body([f EXCEPT !.log = Append(@, Call("ignore"))])

\* FetchCanceller::ignore
ignore(f) == [f EXCEPT !.cancel_chan = NoChan, !.log = Append(@, Call("ignore"))]

\* A drop that lets go of the channel without cancelling.
drop_without_cancel(f) ==
    [f EXCEPT !.cancel_chan = NoChan, !.log = Append(@, Call("drop"))]

\* Drop for FetchCanceller
drop(f) == cancel_body([f EXCEPT !.log = Append(@, Call("drop"))])

Guard == [cancel_chan |-> canceller.cancel_chan, chans |-> chans, log |-> fetch_log]

FetchInit ==
    /\ canceller = [alive |-> FALSE, cancel_chan |-> NoChan, calls |-> 0]
    /\ chans = << >>
    /\ fetch_log = << >>

\* The guard becomes f; one more call was made.
GuardBecomes(f, alive) ==
    /\ canceller' = [alive |-> alive, cancel_chan |-> f.cancel_chan,
                     calls |-> canceller.calls + 1]
    /\ chans' = f.chans
    /\ fetch_log' = f.log

\* FetchCanceller::new(): Default::default()
FetchNew ==
    /\ ~canceller.alive
    /\ canceller.calls < MaxCalls
    /\ GuardBecomes([Guard EXCEPT !.cancel_chan = NoChan,
                                  !.log = Append(@, Call("new"))], TRUE)
    /\ UNCHANGED loop_vars

FetchInitialize ==
    /\ canceller.alive
    /\ canceller.calls < MaxCalls
    /\ GuardBecomes(initialize(Guard), TRUE)
    /\ UNCHANGED loop_vars

FetchCancel ==
    /\ canceller.alive
    /\ canceller.calls < MaxCalls
    /\ GuardBecomes(cancel(Guard), TRUE)
    /\ UNCHANGED loop_vars

FetchIgnore ==
    /\ canceller.alive
    /\ canceller.calls < MaxCalls
    /\ GuardBecomes(ignore(Guard), TRUE)
    /\ UNCHANGED loop_vars

\* The guard goes out of scope.
FetchDrop ==
    /\ canceller.alive
    /\ canceller.calls < MaxCalls
    /\ GuardBecomes(drop(Guard), FALSE)
    /\ UNCHANGED loop_vars

\* The owner of the fetch finishes and drops the receiver it was handed.
ReceiverDropped ==
    /\ \E c \in 1 .. Len(chans) :
          /\ chans[c].rx = "open"
          /\ chans' = [chans EXCEPT ![c].rx = "dropped"]
    /\ UNCHANGED << canceller, fetch_log, loop_vars >>

Init == LoopInit /\ FetchInit

Next ==
    \/ AnimatingPoll
    \/ EnterRunForever
    \/ RunForeverEvent
    \/ CbGetEvents
    \/ CbServoGetEvents
    \/ CbHandleServoEvents
    \/ CbForward
    \/ CbCheckShutdown
    \/ CbPull
    \/ CbRepaint
    \/ CbReturn

Spec == Init /\ [][Next]_vars

FetchNext ==
    \/ FetchNew
    \/ FetchInitialize
    \/ FetchCancel
    \/ FetchIgnore
    \/ FetchDrop
    \/ ReceiverDropped

SpecFetch == Init /\ [][FetchNext]_vars

(***************************************************************************)
(* The coordinator on its own: the calls the callback makes on a Browser,  *)
(* in the callback's order, with every kind of notification the engine may *)
(* send.  tick_log holds the last call; cb.servo_events the batch handled. *)
(***************************************************************************)
\* The notifications, before their reply channels are told apart.
BrowserNotifs ==
    { Notif(NoId, MsgBrowserCreated(id)) : id \in BrowserIds }
    \cup { Notif(SomeId(1), MsgCloseBrowser) }
    \cup { Notif(SomeId(1), MsgReply("AllowUnload", IpcSender(0, open))) : open \in BOOLEAN }
    \cup { Notif(SomeId(1), MsgAllowNavigation(url, IpcSender(0, TRUE))) : url \in { "a", "b" } }
    \cup { Notif(NoId, MsgReply("AllowOpeningBrowser", IpcSender(0, TRUE))) }
    \cup { Notif(SomeId(1), MsgGetSelectedBluetoothDevice(devices, IpcSender(0, TRUE))) :
              devices \in { << >>, << "d" >> } }
    \cup { Notif(SomeId(id), MsgAlert("m", IpcSender(0, open))) :
              id \in BrowserIds, open \in BOOLEAN }
    \cup { Notif(SomeId(1), MsgSelectFiles(choice[1], IpcSender(0, open), choice[2])) :
              choice \in { << FALSE, << >> >>, << FALSE, << "a" >> >>,
                           << TRUE, << "a", "b" >> >> },
              open \in BOOLEAN }

\* Every notification of a batch has a reply channel of its own.
WithChans(batch) ==
    [i \in 1 .. Len(batch) |->
        IF "sender" \in DOMAIN batch[i].msg
        THEN [batch[i] EXCEPT !.msg.sender.chan = i]
        ELSE batch[i]]

\* The key events the engine hands back after it has handled them.
KeyEventNotifs ==
    { Notif(SomeId(1), MsgKeyEvent(ch, key, state, mods)) :
         ch \in { None, "+", "-", "0" },
         key \in { "Equal", "PageDown", "PageUp", "Home", "End", "Up", "Down", "Left", "Right" },
         state \in { "Pressed", "Released", "Repeated" },
         mods \in { {}, { "SHIFT" }, { "CONTROL" }, { "CONTROL", "SHIFT" },
                    { "CONTROL", "ALT" }, { "CONTROL", "ALT", "SHIFT" },
                    { "CONTROL", "SUPER" } } }

\* The batches servo.get_events() may return: one or two notifications, or
\* one key event.
BrowserBatches ==
    { WithChans(<< a >>) : a \in BrowserNotifs }
    \cup { WithChans(<< a, b >>) : a \in BrowserNotifs, b \in BrowserNotifs }
    \cup { << k >> : k \in KeyEventNotifs }

Created(batch) ==
    Cardinality({ i \in 1 .. Len(batch) : batch[i].msg.type = "BrowserCreated" })

\* opts::get().headless is fixed when the process starts.
BrowserInit ==
    /\ pc = "loop"
    /\ stop = FALSE
    /\ window = WindowNew
    /\ gl \in { [GlWindowNew EXCEPT !.headless = h] : h \in BOOLEAN }
    /\ browser = BrowserNew
    /\ cb = CbNew
    /\ servo = ServoNew
    /\ budget = [platform |-> MaxPlatformEvents, engine |-> MaxNotifs]
    /\ tick_log = << >>
    /\ FetchInit

\* browser.handle_window_events(win_events), at the start of a tick
BrowserHandleWindowEvents ==
    /\ tick_log \in { << >>, << "forward" >> }
    /\ \E win_events \in { << >>, << EvIdle >>, << EvResize >> } :
          browser' = handle_window_events(browser, win_events)
    /\ tick_log' = << "get" >>
    /\ UNCHANGED << pc, stop, window, gl, cb, servo, budget, fetch_vars >>

\* browser.handle_servo_events(servo.get_events())
BrowserHandleServoEvents ==
    /\ tick_log \in { << "get" >>, << "forward" >> }
    /\ \E batch \in BrowserBatches :
          /\ Len(browser.browsers) + Created(batch) <= MaxTabs
          /\ LET st1 == handle_servo_events(St, batch)
             IN  /\ browser' = st1.browser
                 /\ window' = st1.window
                 /\ gl' = st1.gl
          /\ cb' = [cb EXCEPT !.servo_events = batch]
    /\ tick_log' = << "handle" >>
    /\ UNCHANGED << pc, stop, servo, budget, fetch_vars >>

\* servo.handle_events(browser.get_events()); what was recorded of the batch
\* is forgotten.
BrowserGetEvents ==
    /\ tick_log = << "handle" >>
    /\ browser' = [get_events_browser(browser) EXCEPT
                      !.replies = << >>, !.dialogs = << >>, !.workers = << >>,
                      !.handled = << >>]
    /\ cb' = CbNew
    /\ tick_log' = << "forward" >>
    /\ UNCHANGED << pc, stop, window, gl, servo, budget, fetch_vars >>

BrowserNext ==
    \/ BrowserHandleWindowEvents
    \/ BrowserHandleServoEvents
    \/ BrowserGetEvents

SpecBrowser == BrowserInit /\ [][BrowserNext]_vars

(***************************************************************************)
(* The translator on its own: one or two platform events are handed to     *)
(* winit_event_to_servo_event, then get_events drains the queue.  tick_log *)
(* holds the platform events translated since the last drain.              *)
(***************************************************************************)
CtrlShift == [ctrl |-> TRUE, shift |-> TRUE, alt |-> FALSE, logo |-> FALSE]

WindowInputs ==
    { PlKeyboardInput("Pressed", code, mods) :
         code \in { "A", "B", "Escape", "Unlabeled", None }, mods \in { NoMods, CtrlShift } }
    \cup { PlKeyboardInput("Released", "A", mods) : mods \in { NoMods, CtrlShift } }
    \cup { PlReceivedCharacter(ch) : ch \in { "a", "+", "euro" } }
    \cup { PlMouseInput(state, button) :
              state \in { "Pressed", "Released" }, button \in { "Left", "Right" } }
    \cup { PlMouseInput("Pressed", "Middle") }
    \cup { PlCursorMoved(p) : p \in { << 0, 0 >>, << 5, 8 >>, << 6, 8 >> } }
    \cup { PlMouseWheel(d, "Moved") :
              d \in { LineDelta(0, 0), LineDelta(1, 1), LineDelta(2, 0),
                      PixelDelta(3, 3), PixelDelta(3, -4), PixelDelta(-5, 2) } }
    \cup { PlResized(<< 1, 1 >>), PlResized(<< 2, 2 >>) }
    \cup { PlTouch(phase, 1, << 1, 1 >>) :
              phase \in { "Started", "Moved", "Ended", "Cancelled" } }
    \cup { PlRefresh, PlCloseRequested, PlAwakened,
           PlSuspended(TRUE), PlSuspended(FALSE) }

\* The display density factor is fixed when the window is created.
WindowInit ==
    /\ pc = "loop"
    /\ stop = FALSE
    /\ window = WindowNew
    /\ gl \in { [GlWindowNew EXCEPT !.hidpi = h] : h \in { 1, 2 } }
    /\ browser = BrowserNew
    /\ cb = CbNew
    /\ servo = ServoNew
    /\ budget = [platform |-> MaxPlatformEvents, engine |-> MaxNotifs]
    /\ tick_log = << >>
    /\ FetchInit

\* The platform delivers an event: winit_event_to_servo_event(event)
WindowPlatformEvent ==
    /\ Len(tick_log) <= 1
    /\ \E e \in WindowInputs :
          /\ window' = winit_event_to_servo_event(window, gl, e)
          /\ gl' = winit_event_gl(gl, e)
          /\ tick_log' = Append(tick_log, e)
    /\ UNCHANGED << pc, stop, browser, cb, servo, budget, fetch_vars >>

\* window.get_events()
WindowGetEvents ==
    /\ tick_log # << >>
    /\ window' = get_events_window(window)
    /\ tick_log' = << >>
    /\ UNCHANGED << pc, stop, gl, browser, cb, servo, budget, fetch_vars >>

WindowNext ==
    \/ WindowPlatformEvent
    \/ WindowGetEvents

SpecWindow == WindowInit /\ [][WindowNext]_vars

(***************************************************************************)
(* The run loop: properties of a tick.                                     *)
(***************************************************************************)
\* The call that may follow call `a` in a tick, given the call after it is `b`.
Follows(a, b) ==
    CASE a = "get" -> b = "handle"
      [] a = "handle" -> b = "forward"
      [] a = "forward" -> b = "check"
      [] a = "check" -> b = "pull"
      [] a = "pull" -> b \in { "handle", "repaint" }
      [] OTHER -> FALSE

TickOrder ==
    /\ tick_log # << >> => tick_log[1] = "get"
    /\ \A i \in 1 .. Len(tick_log) - 1 : Follows(tick_log[i], tick_log[i + 1])
    \* every event queued in the coordinator has been handed to the engine
    /\ (tick_log # << >> /\ Last(tick_log) = "forward") => browser.event_queue = << >>
    \* the flag decides what follows the check
    /\ (tick_log # << >> /\ Last(tick_log) = "check") =>
          IF shutdown_requested(browser)
          THEN pc = "cb_return" /\ cb.ret
          ELSE pc = "cb_pull"
    \* the pulled batch decides whether the repetition goes on
    /\ (tick_log # << >> /\ Last(tick_log) = "pull") =>
          IF cb.servo_events = << >>
          THEN pc \in { "cb_repaint", "cb_return" }
          ELSE pc = "cb_handle"
    \* the tick ends on a set flag or on an empty batch, and on nothing else
    /\ pc = "cb_return" =>
          \/ /\ cb.ret /\ shutdown_requested(browser)
             /\ Last(tick_log) = "check" /\ servo.repaints = 0
          \/ /\ ~cb.ret /\ ~shutdown_requested(browser) /\ cb.servo_events = << >>
             /\ tick_log[Len(tick_log) - (IF cb.need_resize THEN 1 ELSE 0)] = "pull"

\* C1: in every iteration of a tick the coordinator handles the batch, then its
\* queue is forwarded to the engine, then the shutdown flag is checked, then the
\* next batch is pulled; the repetition ends only on an empty batch or on a set
\* flag, and on a set flag the callback returns stop at once and run() ends.
C1_TickOrder ==
    /\ []TickOrder
    /\ [][(pc = "cb_return" /\ cb.ret) => (pc' = "done" /\ stop')]_vars

\* A tick of two iterations that the shutdown flag ends.
C1_Witness ==
    /\ pc = "cb_return" /\ cb.ret
    /\ tick_log = << "get", "handle", "forward", "check", "pull", "handle", "forward", "check" >>

\* C2: whenever run() has returned, the shutdown flag was seen set by the
\* callback or a Quit event was handed to the engine.
C2_CooperativeStop ==
    pc = "done" => stop /\ (shutdown_requested(browser) \/ servo.quit_received)

C2_Witness == pc = "done" /\ shutdown_requested(browser)

\* C3 as stated: a tick in which a Quit event is handed to the engine ends the loop.
C3_QuitStopsLoop ==
    (pc = "cb_return" /\ HasQuit(servo.received)) => cb.ret

\* C3, amended: a Quit event drained in a tick is handed to the engine in that
\* tick, and the callback returns stop exactly when the shutdown flag is set.
C3_QuitForwardedStopOnShutdown ==
    pc = "cb_return" =>
        /\ cb.ret = shutdown_requested(browser)
        /\ HasQuit(cb.win_events) => HasQuit(servo.received)

\* A tick that handed Quit to the engine and goes on.
C3_Witness ==
    pc = "cb_return" /\ HasQuit(cb.win_events) /\ HasQuit(servo.received) /\ ~cb.ret

\* C4: in run_forever a platform event that leaves the translator queue empty
\* does not invoke the callback, so the engine is not contacted.
C4_IdleNoEventsNoContact ==
    [][(pc = "run_forever" /\ window'.event_queue = << >>)
          => (pc' # "callback" /\ servo' = servo /\ tick_log' = tick_log)]_vars

\* A deferred printable key-down left the queue empty and the loop still waits.
C4_Witness ==
    /\ pc = "run_forever" /\ window.last_pressed_key = "A"
    /\ window.event_queue = << >> /\ ~window.suspended

ResizeDrained == \E i \in 1 .. Len(cb.win_events) : cb.win_events[i] = EvResize

\* C5 as stated: a tick with a Resize among its events ends with exactly one
\* synchronous repaint, a tick without one ends with none.
C5_ResizeAlwaysRepaints ==
    pc = "cb_return" => servo.repaints = (IF ResizeDrained THEN 1 ELSE 0)

\* C5, amended: a tick that the shutdown flag does not end repaints exactly
\* once, after its last pull, iff a Resize was drained; a tick that the
\* shutdown flag ends does not repaint.
C5_ResizeRepaintsUnlessShutdown ==
    pc = "cb_return" =>
        /\ servo.repaints = (IF ResizeDrained /\ ~cb.ret THEN 1 ELSE 0)
        /\ servo.repaints = 1 =>
              /\ Last(tick_log) = "repaint"
              /\ tick_log[Len(tick_log) - 1] = "pull"
        /\ servo.repaints = 0 => \A i \in 1 .. Len(tick_log) : tick_log[i] # "repaint"

C5_Witness == pc = "cb_return" /\ ResizeDrained /\ servo.repaints = 1

\* C6 as stated: at the top of the loop with the animation state Animating, the
\* tick polls and the callback runs.
C6_AnimatingAlwaysPolls ==
    [][(pc = "loop" /\ window.animation_state = "Animating")
          => (pc' = "callback" /\ cb'.from = "poll_events")]_vars

\* C6, amended: at the top of the loop with the animation state Animating and
\* the window not suspended, the tick polls and the callback runs, whatever the
\* poll returned; and a callback that has run has interacted with the engine.
C6_AnimatingNotSuspendedPolls ==
    /\ [][(pc = "loop" /\ window.animation_state = "Animating" /\ ~window.suspended)
             => (pc' = "callback" /\ cb'.from = "poll_events")]_vars
    /\ [](pc = "cb_return" =>
             Len(tick_log) >= 3 /\ SubSeq(tick_log, 1, 3) = << "get", "handle", "forward" >>)

\* An Animating tick whose poll returned no event at all, through the engine.
C6_Witness ==
    /\ pc = "cb_return" /\ cb.from = "poll_events" /\ cb.polled = 0
    /\ cb.win_events = << >> /\ Len(tick_log) >= 3

\* C7: inside run_forever the callback runs only after a platform event and
\* only if the window is not suspended then; run_forever is left only when the
\* callback asked to stop or the window is animating.
C7_IdleBlocksUntilEvent ==
    [][/\ (pc = "run_forever" /\ pc' = "callback") =>
             (~window'.suspended /\ budget'.platform = budget.platform - 1)
       /\ ((pc = "run_forever" \/ (pc = "cb_return" /\ cb.from = "run_forever"))
              /\ pc' \in { "loop", "done" }) =>
             (stop' \/ (window'.animation_state = "Animating" /\ ~window'.suspended))]_vars

\* An event arrived while suspended: it is queued and the loop still waits.
C7_Witness ==
    pc = "run_forever" /\ window.suspended /\ window.event_queue # << >>

\* C8: a shutdown notification sets the flag that shutdown_requested() reports
\* and every notification of the batch, also after it, is handled in order with
\* its usual effect.
C8_ShutdownDoesNotStopBatch ==
    pc = "cb_forward" =>
        LET batch == cb.servo_events
            n == Len(batch)
            first == tick_log = << "get", "handle" >>
            derived == { i \in 1 .. n : batch[i].msg.type \in { "BrowserCreated", "CloseBrowser" } }
        IN  /\ browser.handled = [i \in 1 .. n |-> batch[i].msg]
            /\ (\E i \in 1 .. n : batch[i].msg = MsgShutdown) => shutdown_requested(browser)
            /\ Len(browser.event_queue) =
                  (IF first THEN Len(cb.win_events) ELSE 0) + Cardinality(derived)
            /\ (n > 0 /\ batch[n].msg.type = "BrowserCreated") =>
                  /\ Last(browser.browsers) = batch[n].msg.id
                  /\ Last(browser.event_queue) = EvSelectBrowser(batch[n].msg.id)

\* A batch with a notification after the shutdown notification.
C8_Witness ==
    /\ pc = "cb_forward" /\ Len(cb.servo_events) = 2
    /\ cb.servo_events[1].msg = MsgShutdown
    /\ cb.servo_events[2].msg.type = "BrowserCreated"

(***************************************************************************)
(* FetchCanceller: properties of the log of calls and channel operations.  *)
(***************************************************************************)
\* The channel armed after the first n entries of the log.
RECURSIVE ArmedAfter(_, _)
ArmedAfter(log, n) ==
    IF n = 0 THEN NoChan
    ELSE CASE log[n].op = "create" -> log[n].chan
           [] log[n].op \in { "send", "ignore", "new" } -> NoChan
           [] OTHER -> ArmedAfter(log, n - 1)

\* The number of signals sent on channel c in the log.
SendsOn(log, c) ==
    Cardinality({ i \in 1 .. Len(log) : log[i] = LogEntry("send", c) })

\* C9: initialize() on an armed guard sends exactly one signal on the armed
\* channel, then creates the new channel and arms it; nothing is sent on the
\* armed channel; two initialize() in a row on a fresh guard send one signal.
C9_InitializeCancelsPrevious ==
    /\ \A i \in 1 .. Len(fetch_log) :
          fetch_log[i].op = "initialize" =>
             LET prev == ArmedAfter(fetch_log, i - 1)
             IN  IF prev # NoChan
                 THEN /\ Len(fetch_log) >= i + 2
                      /\ fetch_log[i + 1] = LogEntry("send", prev)
                      /\ fetch_log[i + 2].op = "create"
                      /\ fetch_log[i + 2].chan # prev
                      /\ SendsOn(SubSeq(fetch_log, 1, i + 2), prev) = 1
                      /\ SendsOn(SubSeq(fetch_log, 1, i + 2), fetch_log[i + 2].chan) = 0
                 ELSE /\ Len(fetch_log) >= i + 1
                      /\ fetch_log[i + 1].op = "create"
    /\ canceller.cancel_chan # NoChan =>
          /\ canceller.cancel_chan = ArmedAfter(fetch_log, Len(fetch_log))
          /\ chans[canceller.cancel_chan[1]].sent = 0
    /\ (Len(fetch_log) >= 4 /\ fetch_log[1].op = "new"
          /\ fetch_log[2].op = "initialize" /\ fetch_log[4].op = "initialize") =>
          /\ SubSeq(fetch_log, 4, 6) =
                << Call("initialize"), LogEntry("send", SomeChan(1)),
                   LogEntry("create", SomeChan(2)) >>
          /\ (Len(fetch_log) = 6 => chans[1].sent = 1 /\ chans[2].sent = 0)

\* Two initialize() in a row on a fresh guard.
C9_Witness ==
    /\ Len(fetch_log) = 6
    /\ fetch_log[2].op = "initialize" /\ fetch_log[4].op = "initialize"
    /\ canceller.cancel_chan = SomeChan(2)

\* C10: when a guard that is armed goes out of scope, exactly one signal is
\* sent on its armed channel, and the guard is left unarmed.
C10_DropCancels ==
    /\ \A i \in 1 .. Len(fetch_log) :
          (fetch_log[i].op = "drop" /\ ArmedAfter(fetch_log, i - 1) # NoChan) =>
             LET c == ArmedAfter(fetch_log, i - 1)
             IN  /\ Len(fetch_log) >= i + 1
                 /\ fetch_log[i + 1] = LogEntry("send", c)
                 /\ SendsOn(fetch_log, c) = 1
                 /\ chans[c[1]].sent = 1
    /\ ~canceller.alive => canceller.cancel_chan = NoChan

\* An armed guard went out of scope.
C10_Witness ==
    \E i \in 1 .. Len(fetch_log) :
        fetch_log[i].op = "drop" /\ ArmedAfter(fetch_log, i - 1) # NoChan

\* The calls of the log at which channel c was armed and the call was op.
CallsOnArmed(log, op, c) ==
    { i \in 1 .. Len(log) : log[i] = Call(op) /\ ArmedAfter(log, i - 1) = c }

\* C11: after initialize() then ignore(), no signal is ever sent on the channel
\* that was armed: not by ignore() itself, not by a later cancel(), not when the
\* guard goes out of scope; ignore() leaves the guard unarmed.
C11_IgnoreDisarmsSilently ==
    /\ \A i \in 1 .. Len(fetch_log) :
          (fetch_log[i] = Call("ignore") /\ ArmedAfter(fetch_log, i - 1) # NoChan) =>
             LET c == ArmedAfter(fetch_log, i - 1)
             IN  /\ SendsOn(fetch_log, c) = 0
                 /\ chans[c[1]].sent = 0 /\ chans[c[1]].received = 0
                 /\ canceller.cancel_chan # c
                 /\ (i < Len(fetch_log) /\ fetch_log[i + 1].op \in { "cancel", "drop" }) =>
                       (i + 1 = Len(fetch_log) \/ fetch_log[i + 2].op # "send")
    /\ (fetch_log # << >> /\ Last(fetch_log) = Call("ignore")) =>
          canceller.cancel_chan = NoChan

\* initialize(), ignore(), cancel(), then the guard went out of scope.
C11_Witness ==
    /\ fetch_log = << Call("new"), Call("initialize"), LogEntry("create", SomeChan(1)),
                      Call("ignore"), Call("cancel"), Call("drop") >>
    /\ ~canceller.alive

\* Channel c was fired (a signal was sent on it) or disarmed (by ignore()).
FiredOrDisarmed(log, c) ==
    SendsOn(log, c) >= 1 \/ CallsOnArmed(log, "ignore", c) # { }

\* C12: the guard arms at most one channel, the newest one, and every channel
\* created before it has been fired or disarmed; an armed channel gives way to
\* another one only within initialize(), which first sends a signal on it.
C12_AtMostOneArmed ==
    /\ [](canceller.cancel_chan # NoChan =>
             /\ canceller.cancel_chan = SomeChan(Len(chans))
             /\ \A c \in 1 .. Len(chans) - 1 : FiredOrDisarmed(fetch_log, SomeChan(c)))
    /\ [](Cardinality({ c \in 1 .. Len(chans) :
                          ~FiredOrDisarmed(fetch_log, SomeChan(c)) }) <= 1)
    /\ [][(canceller.cancel_chan # NoChan /\ canceller'.cancel_chan # NoChan
              /\ canceller'.cancel_chan # canceller.cancel_chan) =>
             /\ Len(fetch_log') = Len(fetch_log) + 3
             /\ SubSeq(fetch_log', Len(fetch_log) + 1, Len(fetch_log) + 3) =
                   << Call("initialize"), LogEntry("send", canceller.cancel_chan),
                      LogEntry("create", canceller'.cancel_chan) >>]_vars

\* A second channel is armed; the first one was fired by initialize().
C12_Witness ==
    /\ canceller.cancel_chan = SomeChan(2)
    /\ SendsOn(fetch_log, SomeChan(1)) = 1
    /\ CallsOnArmed(fetch_log, "initialize", SomeChan(1)) # { }

\* The number of entries of the log with operation op.
CountOp(log, op) == Cardinality({ i \in 1 .. Len(log) : log[i].op = op })

\* C13: at most one signal is ever sent on a channel, and only while it is the
\* armed one; a channel that was fired or disarmed is never armed again; the
\* signals sent are never more than the initialize() calls.
C13_AtMostOneSignalPerChannel ==
    /\ \A c \in 1 .. Len(chans) :
          /\ chans[c].sent <= 1
          /\ chans[c].sent = SendsOn(fetch_log, SomeChan(c))
          /\ chans[c].received <= chans[c].sent
          /\ FiredOrDisarmed(fetch_log, SomeChan(c)) => canceller.cancel_chan # SomeChan(c)
    /\ \A i \in 1 .. Len(fetch_log) :
          fetch_log[i].op = "send" => ArmedAfter(fetch_log, i - 1) = fetch_log[i].chan
    /\ CountOp(fetch_log, "send") <= CountOp(fetch_log, "initialize")
    /\ CountOp(fetch_log, "create") = CountOp(fetch_log, "initialize")
    /\ Len(chans) = CountOp(fetch_log, "initialize")

\* A channel was fired by cancel() and cancel() was called again.
C13_Witness ==
    \E i \in 1 .. Len(fetch_log) - 2 :
        /\ fetch_log[i] = Call("cancel")
        /\ fetch_log[i + 1] = LogEntry("send", SomeChan(1))
        /\ fetch_log[i + 2] = Call("cancel")

\* C14: cancel() on an unarmed guard sends nothing, changes no channel and
\* leaves the guard unarmed; cancel() leaves any guard unarmed, so a second
\* cancel() changes nothing; a cancel() on a channel whose receiver is gone
\* leaves the guard unarmed and the signal is not received.
C14_CancelUnarmedIsNoOp ==
    LET once == cancel(Guard)
        twice == cancel(once)
    IN  /\ canceller.cancel_chan = NoChan =>
              /\ once.chans = chans /\ once.cancel_chan = NoChan
              /\ once.log = Append(fetch_log, Call("cancel"))
        /\ once.cancel_chan = NoChan
        /\ twice.cancel_chan = once.cancel_chan /\ twice.chans = once.chans
        /\ twice.log = Append(once.log, Call("cancel"))
        /\ (canceller.cancel_chan # NoChan
              /\ chans[canceller.cancel_chan[1]].rx = "dropped") =>
              LET c == canceller.cancel_chan[1]
              IN  /\ once.cancel_chan = NoChan
                  /\ once.chans = [chans EXCEPT ![c].sent = @ + 1]
                  /\ once.log = fetch_log \o << Call("cancel"), LogEntry("send", SomeChan(c)) >>
        /\ \A i \in 1 .. Len(fetch_log) :
              (fetch_log[i] = Call("cancel") /\ ArmedAfter(fetch_log, i - 1) = NoChan) =>
                 (i = Len(fetch_log) \/ fetch_log[i + 1].op # "send")

\* cancel() was called on a guard never initialized, and a cancel() made its
\* send on a channel whose receiver was gone.
C14_Witness ==
    /\ Len(fetch_log) >= 2 /\ fetch_log[2] = Call("cancel")
    /\ \E c \in 1 .. Len(chans) :
          /\ chans[c].rx = "dropped" /\ chans[c].sent = 1 /\ chans[c].received = 0
          /\ CallsOnArmed(fetch_log, "cancel", SomeChan(c)) # { }
          /\ canceller.alive /\ canceller.cancel_chan = NoChan

(***************************************************************************)
(* The coordinator: properties of a handled batch.                         *)
(***************************************************************************)
\* The indices of the replies sent on reply channel c.
RepliesOn(c) == { j \in 1 .. Len(browser.replies) : browser.replies[j].chan = c }

\* C15 as stated: the active browser id, if there is one, is the top of the
\* stack of browsers.
C15_ActiveIdIsTop ==
    browser.browser_id # NoId =>
        /\ browser.browsers # << >>
        /\ browser.browser_id = SomeId(Last(browser.browsers))

\* C16: CloseBrowser on a stack of n >= 1 browsers pops it; if a browser is
\* left, the new top becomes the active id and SelectBrowser(new top) is the one
\* event queued; if none is left the one event queued is Quit.
C16_CloseBrowserPops ==
    [][(tick_log' = << "handle" >> /\ Len(cb'.servo_events) = 1
          /\ cb'.servo_events[1].msg = MsgCloseBrowser
          /\ Len(browser.browsers) >= 1) =>
          LET n == Len(browser.browsers)
          IN  /\ browser'.browsers = SubSeq(browser.browsers, 1, n - 1)
              /\ IF n > 1
                 THEN /\ browser'.browser_id = SomeId(browser.browsers[n - 1])
                      /\ browser'.event_queue =
                            Append(browser.event_queue,
                                   EvSelectBrowser(browser.browsers[n - 1]))
                 ELSE browser'.event_queue = Append(browser.event_queue, EvQuit)]_vars

\* One of two browsers was closed: the other one is selected.
C16_Witness ==
    /\ tick_log = << "handle" >> /\ Len(cb.servo_events) = 1
    /\ cb.servo_events[1].msg = MsgCloseBrowser
    /\ browser.browsers = << 2 >> /\ browser.browser_id = SomeId(2)
    /\ browser.event_queue = << EvResize, EvSelectBrowser(2) >>

\* C17: BrowserCreated(id) pushes id on the stack, makes id the active id iff
\* there was none, and the one event it queues is SelectBrowser(id).
C17_BrowserCreatedPushes ==
    [][(tick_log' = << "handle" >> /\ Len(cb'.servo_events) = 1
          /\ cb'.servo_events[1].msg.type = "BrowserCreated") =>
          LET id == cb'.servo_events[1].msg.id
          IN  /\ browser'.browsers = Append(browser.browsers, id)
              /\ browser'.browser_id =
                    (IF browser.browser_id = NoId THEN SomeId(id) ELSE browser.browser_id)
              /\ browser'.event_queue =
                    Append(browser.event_queue, EvSelectBrowser(id))]_vars

\* A second browser was created: it is on top and the first one stays active.
C17_Witness ==
    /\ tick_log = << "handle" >> /\ Len(cb.servo_events) = 1
    /\ cb.servo_events[1].msg = MsgBrowserCreated(2)
    /\ browser.browsers = << 1, 2 >> /\ browser.browser_id = SomeId(1)
    /\ Last(browser.event_queue) = EvSelectBrowser(2)

PermissionRequests ==
    { "AllowUnload", "AllowNavigation", "AllowOpeningBrowser", "GetSelectedBluetoothDevice" }

\* C18 as stated: every permission request of a handled batch has exactly one
\* reply on its channel: false, or none for the bluetooth device.
C18_PermissionRequestsAnswered ==
    tick_log = << "handle" >> =>
        \A i \in 1 .. Len(cb.servo_events) :
            cb.servo_events[i].msg.type \in PermissionRequests =>
               /\ Cardinality(RepliesOn(i)) = 1
               /\ \A j \in RepliesOn(i) :
                     IF cb.servo_events[i].msg.type = "GetSelectedBluetoothDevice"
                     THEN browser.replies[j].value = None
                     ELSE browser.replies[j].value = FALSE

\* C19 as stated: a SelectFiles of a handled batch has exactly one reply; in
\* headless mode it is None and no file chooser was shown; otherwise the
\* chooser was shown before the reply, which is what was chosen in it.
C19_HeadlessFilesNoChooser ==
    tick_log = << "handle" >> =>
        \A i \in 1 .. Len(cb.servo_events) :
            LET msg == cb.servo_events[i].msg
            IN  msg.type = "SelectFiles" =>
                   /\ Cardinality(RepliesOn(i)) = 1
                   /\ \A j \in RepliesOn(i) :
                         IF gl.headless
                         THEN /\ browser.replies[j].value = NoFiles
                              /\ \A d \in 1 .. Len(browser.dialogs) :
                                    browser.dialogs[d].kind # "files"
                         ELSE /\ browser.replies[j].value =
                                    get_selected_files_result(msg.multiple, msg.chosen)
                              /\ \E d \in 1 .. Len(browser.dialogs) :
                                    browser.dialogs[d] =
                                       [kind |-> "files", replies_before |-> j - 1]

\* The number of SendError events queued for browser id with the reason.
SendErrors(id, reason) ==
    Cardinality({ k \in 1 .. Len(browser.event_queue) :
                     /\ browser.event_queue[k].type = "SendError"
                     /\ browser.event_queue[k].id = id
                     /\ browser.event_queue[k].reason = reason })

\* C20: for every Alert of a handled batch the dialog was shown, then one
\* signal was sent on its reply channel; a signal that could not be sent
\* queued one SendError event with the browser id of the notification, and
\* the notifications after it were handled as usual.
C20_AlertRepliesOnce ==
    tick_log = << "handle" >> =>
        LET batch == cb.servo_events
            n == Len(batch)
        IN  /\ browser.handled = [i \in 1 .. n |-> batch[i].msg]
            /\ \A i \in 1 .. n :
                  batch[i].msg.type = "Alert" =>
                     /\ Cardinality(RepliesOn(i)) = 1
                     /\ \A j \in RepliesOn(i) :
                           /\ browser.replies[j].value = "unit"
                           /\ \E d \in 1 .. Len(browser.dialogs) :
                                 browser.dialogs[d] =
                                    [kind |-> "alert", replies_before |-> j - 1]
            /\ \A id \in BrowserIds :
                  SendErrors(SomeId(id), "Failed to send Alert response") =
                     Cardinality({ i \in 1 .. n :
                                     /\ batch[i].msg.type = "Alert"
                                     /\ batch[i].browser_id = SomeId(id)
                                     /\ ~batch[i].msg.sender.open })
            /\ (n = 2 /\ batch[1].msg.type = "Alert" /\ ~batch[1].msg.sender.open
                  /\ batch[2].msg.type = "BrowserCreated") =>
                  /\ SubSeq(browser.event_queue, Len(browser.event_queue) - 1,
                            Len(browser.event_queue)) =
                        << EvSendError(batch[1].browser_id, "Failed to send Alert response"),
                           EvSelectBrowser(batch[2].msg.id) >>
                  /\ Last(browser.browsers) = batch[2].msg.id

\* The reply to an Alert could not be sent and a BrowserCreated came after it.
C20_Witness ==
    /\ tick_log = << "handle" >> /\ Len(cb.servo_events) = 2
    /\ cb.servo_events[1].msg.type = "Alert" /\ ~cb.servo_events[1].msg.sender.open
    /\ cb.servo_events[2].msg.type = "BrowserCreated"
    /\ SendErrors(cb.servo_events[1].browser_id, "Failed to send Alert response") = 1

\* The SendError events a batch has to queue, in order: for an Alert whose
\* reply could not be sent, with the browser id of the notification; for a
\* SelectFiles, with no browser id; for no other notification.
RECURSIVE ExpectedSendErrors(_)
ExpectedSendErrors(batch) ==
    IF batch = << >> THEN << >>
    ELSE LET n == Head(batch)
             failed == "sender" \in DOMAIN n.msg /\ ~n.msg.sender.open
             own == IF failed /\ n.msg.type = "Alert"
                    THEN << EvSendError(n.browser_id, "Failed to send Alert response") >>
                    ELSE IF failed /\ n.msg.type = "SelectFiles"
                         THEN << EvSendError(NoId, "Failed to send SelectFiles response") >>
                         ELSE << >>
         IN  own \o ExpectedSendErrors(Tail(batch))

IsSendError(e) == e.type = "SendError"

\* The reply-channel sends of a batch that failed, for the notifications with
\* browser id id.
FailedSends(batch, id) ==
    { i \in 1 .. Len(batch) :
         /\ batch[i].msg.type \in { "Alert", "SelectFiles", "AllowUnload",
                                    "AllowNavigation", "AllowOpeningBrowser" }
         /\ ~batch[i].msg.sender.open
         /\ batch[i].browser_id = id }

\* C21 as stated: every reply-channel send of a handled batch that failed has
\* queued one SendError event carrying the browser id of its notification.
C21_EveryFailedSendReported ==
    tick_log = << "handle" >> =>
        /\ browser.handled = [i \in 1 .. Len(cb.servo_events) |-> cb.servo_events[i].msg]
        /\ \A id \in { NoId } \cup { SomeId(b) : b \in BrowserIds } :
              Cardinality({ k \in 1 .. Len(browser.event_queue) :
                               /\ browser.event_queue[k].type = "SendError"
                               /\ browser.event_queue[k].id = id })
                 = Cardinality(FailedSends(cb.servo_events, id))

\* A guard armed with a channel whose receiver is gone.
GuardPeerGone ==
    [cancel_chan |-> SomeChan(1),
     chans |-> << [rx |-> "dropped", sent |-> 0, received |-> 0] >>,
     log |-> << >>]

\* C21, amended: a failed reply send queues one SendError event with a reason
\* for an Alert (with the browser id of the notification) and for a SelectFiles
\* (with no browser id); a failed reply send of a permission request queues
\* nothing; every notification of the batch is still handled.  A cancel()
\* whose send fails yields the unarmed guard and nothing else.
C21_FailedAlertAndFilesReported ==
    /\ tick_log = << "handle" >> =>
          /\ browser.handled = [i \in 1 .. Len(cb.servo_events) |-> cb.servo_events[i].msg]
          /\ SelectSeq(browser.event_queue, IsSendError) = ExpectedSendErrors(cb.servo_events)
    /\ cancel(GuardPeerGone) =
          [cancel_chan |-> NoChan,
           chans |-> << [rx |-> "dropped", sent |-> 1, received |-> 0] >>,
           log |-> << Call("cancel"), LogEntry("send", SomeChan(1)) >>]

\* The reply to a SelectFiles could not be sent and a notification came after.
C21_Witness ==
    /\ tick_log = << "handle" >> /\ Len(cb.servo_events) = 2
    /\ cb.servo_events[1].msg.type = "SelectFiles" /\ ~cb.servo_events[1].msg.sender.open
    /\ cb.servo_events[2].msg.type = "AllowUnload" /\ ~cb.servo_events[2].msg.sender.open
    /\ Last(browser.event_queue) = EvSendError(NoId, "Failed to send SelectFiles response")

\* The notifications of a batch that show a dialog.
DialogNotifs(batch) ==
    { i \in 1 .. Len(batch) : batch[i].msg.type \in { "Alert", "SelectFiles" } }

\* C22: every dialog of a handled batch ran on a thread of its own that was
\* joined right after it was spawned: no other thread was spawned, nothing was
\* matched and no reply was sent in between; its reply was sent after the
\* join, and the next notification was matched after the join; handling a
\* batch leaves the state of the translator alone.
C22_DialogWorkerJoined ==
    /\ [][tick_log' = << "handle" >> => window' = window]_vars
    /\ [](tick_log = << "handle" >> =>
        LET batch == cb.servo_events
            w == browser.workers
        IN  /\ Len(w) = 2 * Cardinality(DialogNotifs(batch))
            /\ \A i \in DialogNotifs(batch) :
                  LET k == Cardinality({ j \in DialogNotifs(batch) : j <= i })
                      kind == IF batch[i].msg.type = "Alert" THEN "alert" ELSE "files"
                  IN  /\ w[2 * k - 1] = [op |-> "spawn", kind |-> kind, handled |-> i,
                                         replies |-> w[2 * k].replies]
                      /\ w[2 * k] = [w[2 * k - 1] EXCEPT !.op = "join"]
                      /\ \A j \in RepliesOn(i) : j = w[2 * k].replies + 1
                      /\ RepliesOn(i) # { })

\* Two dialogs in one batch: an alert, then a file chooser.
C22_Witness ==
    /\ tick_log = << "handle" >> /\ Len(cb.servo_events) = 2
    /\ cb.servo_events[1].msg.type = "Alert" /\ cb.servo_events[2].msg.type = "SelectFiles"
    /\ Len(browser.workers) = 4 /\ browser.workers[3].op = "spawn"
    /\ browser.workers[3].replies = 1

\* C30: a KeyEvent notification whose state is Pressed queues no event and
\* changes nothing of the coordinator, of its Window or of the platform window.
C30_NoRemapOnPress ==
    [][(tick_log' = << "handle" >> /\ Len(cb'.servo_events) = 1
          /\ cb'.servo_events[1].msg.type = "KeyEvent"
          /\ cb'.servo_events[1].msg.state = "Pressed") =>
          /\ browser'.event_queue = browser.event_queue
          /\ browser' = [browser EXCEPT !.handled = << cb'.servo_events[1].msg >>]
          /\ window' = window /\ gl' = gl]_vars

\* Control-plus was handled when pressed, with an event of the tick still queued.
C30_Witness ==
    /\ tick_log = << "handle" >>
    /\ cb.servo_events =
          << Notif(SomeId(1), MsgKeyEvent("+", "Equal", "Pressed", { "CONTROL" })) >>
    /\ browser.event_queue = << EvResize >>

(***************************************************************************)
(* The translator: properties of one translated platform event.           *)
(***************************************************************************)
\* The step hands platform event e to winit_event_to_servo_event.
Translated(e) == tick_log' = Append(tick_log, e)

\* The events queued by the step.
Queued(evs) == window'.event_queue = window.event_queue \o evs

Resolved(delta, hidpi) ==
    IF delta.kind = "LineDelta" THEN << delta.x, delta.y * LINE_HEIGHT >>
    ELSE << delta.x * hidpi, delta.y * hidpi >>

\* C24 as stated: after snapping exactly one of dx, dy is zero, the other one
\* is the resolved component of larger magnitude; dx is zeroed iff |dy| >= |dx|.
C24_ExactlyOneAxisZero ==
    [][\A e \in WindowInputs :
          (Translated(e) /\ e.type = "MouseWheel") =>
             LET d == Resolved(e.delta, gl.hidpi)
                 s == Last(window'.event_queue).location
             IN  /\ (s.dx = 0) # (s.dy = 0)
                 /\ IF Abs(d[2]) >= Abs(d[1]) THEN s.dx = 0 /\ s.dy = d[2]
                    ELSE s.dy = 0 /\ s.dx = d[1]]_vars

\* C24, amended: a wheel event queues one Scroll event whose delta has dx
\* zeroed and dy as resolved when |dy| >= |dx|, and dy zeroed and dx as
\* resolved otherwise; so at least one of them is zero, and both are only when
\* the component kept is zero itself.
C24_MinorAxisZeroed ==
    [][\A e \in WindowInputs :
          (Translated(e) /\ e.type = "MouseWheel") =>
             LET d == Resolved(e.delta, gl.hidpi)
                 kept == IF Abs(d[2]) >= Abs(d[1])
                         THEN [kind |-> "Delta", dx |-> 0, dy |-> d[2]]
                         ELSE [kind |-> "Delta", dx |-> d[1], dy |-> 0]
             IN  /\ Queued(<< EvScroll(kept, window.mouse_pos, "Move") >>)
                 /\ kept.dx = 0 \/ kept.dy = 0
                 /\ (kept.dx = 0 /\ kept.dy = 0) <=> (d[2] = 0 /\ Abs(d[2]) >= Abs(d[1]))]_vars

\* A wheel event with |dx| = |dy|: the vertical component is kept.
C24_Witness ==
    /\ tick_log # << >> /\ Last(tick_log) = PlMouseWheel(PixelDelta(3, 3), "Moved")
    /\ gl.hidpi = 2
    /\ Last(window.event_queue).location = ScrollDelta(0, 6)

\* The modifier set a keyboard input reports.
Reported(mods) ==
    (IF mods.ctrl THEN { "CONTROL" } ELSE {}) \cup (IF mods.shift THEN { "SHIFT" } ELSE {})
    \cup (IF mods.alt THEN { "ALT" } ELSE {}) \cup (IF mods.logo THEN { "SUPER" } ELSE {})

\* The keyboard input is the press of a printable key.
PrintablePress(e) ==
    /\ e.type = "KeyboardInput" /\ e.state = "Pressed"
    /\ e.virtual_keycode # None /\ is_printable(e.virtual_keycode)

\* C25 as stated: the press of a printable key queues nothing; the character
\* event that follows it queues one KeyEvent, Pressed, with the key of the
\* deferred press and the character.
C25_KeyAndCharacterPaired ==
    [][\A e \in WindowInputs :
          /\ (Translated(e) /\ PrintablePress(e)) => Queued(<< >>)
          /\ (Translated(e) /\ e.type = "ReceivedCharacter"
                /\ tick_log # << >> /\ PrintablePress(Last(tick_log))) =>
                Queued(<< EvKey(e.ch, winit_key_to_script_key(Last(tick_log).virtual_keycode).key,
                                "Pressed", window.key_modifiers) >>)]_vars

\* C26 as stated: a keyboard input that arrives while a key is deferred drops
\* that key: it queues no event for it, and the key deferred afterwards is the
\* one this input defers, if any; so a character event pairs with the most
\* recent deferred key only.
C26_OneDeferredKey ==
    [][\A e \in WindowInputs :
          (Translated(e) /\ e.type = "KeyboardInput" /\ window.last_pressed_key # None) =>
             /\ window'.last_pressed_key =
                   (IF PrintablePress(e) THEN winit_key_to_script_key(e.virtual_keycode).key
                    ELSE None)
             /\ \A k \in 1 .. Len(window'.event_queue) :
                   (k > Len(window.event_queue) /\ window'.event_queue[k].type = "KeyEvent") =>
                      window'.event_queue[k].key = e.virtual_keycode]_vars

\* C27 as stated: after every keyboard input the tracked modifiers are the ones
\* the input reports.
C27_ModifiersFollowInput ==
    [][\A e \in WindowInputs :
          (Translated(e) /\ e.type = "KeyboardInput") =>
             window'.key_modifiers = Reported(e.modifiers)]_vars

\* C28: a Resized whose size in device pixels differs from inner_size sets
\* inner_size and queues one Resize event; one whose size equals inner_size
\* changes nothing of the translator; the same Resized once more changes nothing.
C28_ResizeOnlyOnChange ==
    /\ [][\A e \in WindowInputs :
             (Translated(e) /\ e.type = "Resized") =>
                LET new_size == << e.size[1] * gl.hidpi, e.size[2] * gl.hidpi >>
                IN  IF new_size # window.inner_size
                    THEN /\ Queued(<< EvResize >>)
                         /\ window' = [window EXCEPT !.inner_size = new_size,
                                                     !.event_queue = Append(@, EvResize)]
                    ELSE window' = window]_vars
    /\ [](tick_log # << >> /\ Last(tick_log).type = "Resized" =>
             winit_event_to_servo_event(window, gl, Last(tick_log)) = window)

\* The same Resized twice in a row: one Resize event is queued.
C28_Witness ==
    /\ tick_log = << PlResized(<< 2, 2 >>), PlResized(<< 2, 2 >>) >>
    /\ window.event_queue = << EvResize >>
    /\ window.inner_size = << 2 * gl.hidpi, 2 * gl.hidpi >>

(***************************************************************************)
(* The run loop: the two queues and their drains.                          *)
(***************************************************************************)
\* C29: Window::get_events and Browser::get_events return the whole queue in
\* the order it was filled and leave it empty, so a second call returns
\* nothing; the translator queues new events behind the ones still queued, and
\* the coordinator queues what it is handed in the same order.
C29_DrainFifo ==
    /\ [][(pc = "callback" /\ pc' = "cb_servo_get") =>
             /\ cb'.win_events = window.event_queue
             /\ window'.event_queue = << >>
             /\ browser'.event_queue = browser.event_queue \o window.event_queue]_vars
    /\ [][(pc = "cb_forward" /\ pc' = "cb_check") =>
             /\ servo'.received = servo.received \o browser.event_queue
             /\ browser'.event_queue = << >>]_vars
    /\ [][(pc \in { "loop", "run_forever" }) =>
             /\ Len(window'.event_queue) >= Len(window.event_queue)
             /\ window.event_queue =
                   SubSeq(window'.event_queue, 1, Len(window.event_queue))]_vars
    /\ [](pc = "cb_servo_get" =>
             get_events_result(get_events_window(window)) = << >>)
    /\ [](pc = "cb_check" =>
             get_events_browser_result(get_events_browser(browser)) = << >>)

\* Two events of one poll were drained in the order they were queued, and
\* handed to the engine in that order.
C29_Witness ==
    /\ pc = "cb_check"
    /\ cb.win_events = << EvResize, EvQuit >>
    /\ servo.received = << EvResize, EvQuit >>
    /\ window.event_queue = << >> /\ browser.event_queue = << >>

(***************************************************************************)
(* The coordinator: keys the engine hands back.                            *)
(***************************************************************************)
\* The step hands the coordinator one KeyEvent notification, alone in its batch.
KeyNotified ==
    /\ tick_log' = << "handle" >> /\ Len(cb'.servo_events) = 1
    /\ cb'.servo_events[1].msg.type = "KeyEvent"

\* The KeyEvent of the step.
KeyOfStep == cb'.servo_events[1].msg

\* The events the coordinator queues in the step.
BrowserQueued(evs) == browser'.event_queue = browser.event_queue \o evs

\* The key is handed back on its release, with no modifier and no character.
PlainRelease(k) == k.state = "Released" /\ k.mods = {} /\ k.ch = None

\* The scroll of a key: page keys by a page less two lines, Home and End to
\* the start and the end, arrow keys by `step` lines for the vertical ones
\* and `side` lines for the horizontal ones.
KeyScroll(key, step, side) ==
    LET page == gl.inner_size[2] * gl.hidpi - 2 * LINE_HEIGHT
        at(location) == << EvScroll(location, << 0, 0 >>, "Move") >>
    IN  CASE key = "PageDown" -> at(ScrollDelta(0, -page))
          [] key = "PageUp" -> at(ScrollDelta(0, page))
          [] key = "Home" -> at(ScrollStart)
          [] key = "End" -> at(ScrollEnd)
          [] key = "Up" -> at(ScrollDelta(0, step * LINE_HEIGHT))
          [] key = "Down" -> at(ScrollDelta(0, -step * LINE_HEIGHT))
          [] key = "Left" -> at(ScrollDelta(side * LINE_HEIGHT, 0))
          [] key = "Right" -> at(ScrollDelta(-side * LINE_HEIGHT, 0))
          [] OTHER -> << >>

\* C31 as stated: a key released with no modifier and no character queues the
\* scroll of the table, every arrow key one of 3 line heights along its axis;
\* a key that is not in the table queues nothing.
C31_ScrollKeys ==
    [][(KeyNotified /\ PlainRelease(KeyOfStep)) =>
          BrowserQueued(KeyScroll(KeyOfStep.key, 3, 3))]_vars

\* The zoom events of a batch of queued events.
Zooms(evs) ==
    SelectSeq(evs, LAMBDA e : e.type \in { "ZoomIn", "ZoomOut", "PinchZoomIn",
                                           "PinchZoomOut", "ResetZoom" })

\* The zoom events queued in the step.
ZoomsQueued(evs) == Zooms(browser'.event_queue) = Zooms(browser.event_queue) \o evs

\* C32 as stated: a released key whose modifiers are neither the platform
\* accelerator nor the accelerator with ALT queues no zoom event.
C32_ExactModifiers ==
    [][(KeyNotified /\ KeyOfStep.mods \notin { CMD_OR_CONTROL, CMD_OR_CONTROL \cup { "ALT" } }) =>
          ZoomsQueued(<< >>)]_vars

\* C32, amended: for the characters - and 0 the modifiers must be the
\* accelerator set itself; for + they are compared without SHIFT, so SHIFT on
\* top of the accelerator still zooms and any other modifier on top does not.
C32_ExactModifiersButShift ==
    [][(KeyNotified /\ KeyOfStep.state # "Pressed") =>
             LET m == KeyOfStep.mods
                 c == KeyOfStep.ch
             IN  ZoomsQueued(
                    IF c = "+" /\ m \ { "SHIFT" } = CMD_OR_CONTROL THEN << EvZoom("ZoomIn") >>
                    ELSE IF c = "+" /\ m \ { "SHIFT" } = CMD_OR_CONTROL \cup { "ALT" }
                         THEN << EvZoom("PinchZoomIn") >>
                    ELSE IF c = "-" /\ m = CMD_OR_CONTROL THEN << EvZoom("ZoomOut") >>
                    ELSE IF c = "-" /\ m = CMD_OR_CONTROL \cup { "ALT" }
                         THEN << EvZoom("PinchZoomOut") >>
                    ELSE IF c = "0" /\ m = CMD_OR_CONTROL THEN << EvZoom("ResetZoom") >>
                    ELSE << >>)]_vars

\* The character - is released with SUPER held on top of the accelerator: no
\* zoom event is queued.
C32_Witness ==
    /\ tick_log = << "handle" >>
    /\ cb.servo_events =
          << Notif(SomeId(1), MsgKeyEvent("-", "Equal", "Released", { "CONTROL", "SUPER" })) >>
    /\ browser.handled # << >>
    /\ Zooms(browser.event_queue) = << >>

C34_TouchSuspendOneToOne ==
    [][\A e \in WindowInputs :
          /\ (Translated(e) /\ e.type = "Touch") =>
                Queued(<< EvTouch(winit_phase_to_touch_event_type(e.phase), e.id,
                                  << e.location[1] * gl.hidpi, e.location[2] * gl.hidpi >>) >>)
          /\ (Translated(e) /\ e.type = "Suspended") =>
                Len(window'.event_queue) = Len(window.event_queue) + 1]_vars

\* C34, amended: every Touch queues one Touch event with the phase Down, Move,
\* Up or Cancel of a touch Started, Moved, Ended or Cancelled, its id and its
\* point in device pixels; a Suspended that resumes clears the suspended flag
\* and queues one Idle; a Suspended that suspends sets the flag and queues
\* nothing.
C34_TouchAndResumeOneToOne ==
    [][\A e \in WindowInputs :
          /\ (Translated(e) /\ e.type = "Touch") =>
                LET phase == CASE e.phase = "Started" -> "Down"
                               [] e.phase = "Moved" -> "Move"
                               [] e.phase = "Ended" -> "Up"
                               [] e.phase = "Cancelled" -> "Cancel"
                IN  window' = [window EXCEPT !.event_queue =
                                  Append(@, EvTouch(phase, e.id,
                                     << e.location[1] * gl.hidpi, e.location[2] * gl.hidpi >>))]
          /\ (Translated(e) /\ e.type = "Suspended") =>
                IF e.suspended
                THEN window' = [window EXCEPT !.suspended = TRUE]
                ELSE window' = [window EXCEPT !.suspended = FALSE,
                                              !.event_queue = Append(@, EvIdle)]]_vars

\* The window is suspended, which queues nothing, and then a touch ends: the
\* queue holds one Touch event, Up.
C34_Witness ==
    /\ tick_log = << PlSuspended(TRUE), PlTouch("Ended", 1, << 1, 1 >>) >>
    /\ window.suspended
    /\ window.event_queue = << EvTouch("Up", 1, << gl.hidpi, gl.hidpi >>) >>

\* C37 as stated: the second of two releases of the same button in a row
\* queues MouseUp and no Click.
C37_ClickOncePerDown ==
    \A b \in { "Left", "Right" } :
       tick_log = << PlMouseInput("Released", b), PlMouseInput("Released", b) >> =>
          Last(window.event_queue) = EvMouse("MouseUp", window.mouse_pos)

(***************************************************************************)
(* The coordinator: CloseBrowser with no browser open.                     *)
(***************************************************************************)
\* C35: CloseBrowser on an empty stack of browsers leaves the stack empty and
\* the rest of the coordinator as it was, and queues one Quit event and no
\* SelectBrowser.
C35_CloseOnEmptyStackQuits ==
    [][(tick_log' = << "handle" >> /\ cb'.servo_events = << Notif(SomeId(1), MsgCloseBrowser) >>
          /\ browser.browsers = << >>) =>
          /\ browser' = [browser EXCEPT !.event_queue = Append(@, EvQuit),
                                        !.handled = Append(@, MsgCloseBrowser)]
          /\ window' = window /\ gl' = gl]_vars

\* CloseBrowser arrived before any browser was created: Quit is queued.
C35_Witness ==
    /\ tick_log = << "handle" >>
    /\ cb.servo_events = << Notif(SomeId(1), MsgCloseBrowser) >>
    /\ browser.browser_id = NoId /\ browser.browsers = << >>
    /\ browser.event_queue # << >> /\ Last(browser.event_queue) = EvQuit

(***************************************************************************)
(* The run loop: suspension, forwarding, stop.                             *)
(***************************************************************************)
\* Sequence a is the beginning of sequence b.
IsPrefix(a, b) == Len(a) <= Len(b) /\ SubSeq(b, 1, Len(a)) = a

\* C36 as stated: the callback never runs while the window is suspended.
C36_NoCallbackWhileSuspended ==
    pc \in { "callback", "cb_servo_get", "cb_handle", "cb_forward", "cb_check",
             "cb_pull", "cb_repaint", "cb_return" } => ~window.suspended

\* C36, amended: inside run_forever the callback is invoked only when the
\* window is not suspended; the Animating branch is entered only when the
\* window is not suspended, and once entered it invokes the callback whatever
\* its poll did, also when a polled event suspended the window; the callback
\* itself never changes the suspended flag.
C36_NoCallbackWhileSuspendedWhenIdle ==
    /\ [][(pc = "run_forever" /\ pc' = "callback") => ~window'.suspended]_vars
    /\ [][(pc = "loop" /\ pc' = "callback") =>
             /\ ~window.suspended /\ window.animation_state = "Animating"
             /\ cb'.from = "poll_events"]_vars
    /\ [][(pc = "loop" /\ run_branch(window) = "poll_events") => pc' = "callback"]_vars
    /\ [][pc' \in { "cb_servo_get", "cb_handle", "cb_forward", "cb_check", "cb_pull",
                    "cb_repaint", "cb_return" } => window'.suspended = window.suspended]_vars
    /\ [](window.suspended /\ pc \notin { "loop", "run_forever", "done" } =>
             cb.from = "poll_events")

\* The callback is about to run in a tick whose poll suspended the window.
C36_Witness ==
    /\ pc = "callback" /\ cb.from = "poll_events"
    /\ window.suspended /\ window.animation_state = "Animating"

\* C38: while the window is suspended inside run_forever every event is kept
\* in the translator's queue behind the ones already there and the callback is
\* not invoked; the event that resumes the window queues Idle behind them and
\* invokes the callback, whose get_events hands over the whole queue, in
\* order, and leaves it empty.
C38_SuspendedEventsKept ==
    /\ [][(pc = "run_forever" /\ window'.suspended) =>
             /\ pc' = "run_forever"
             /\ IsPrefix(window.event_queue, window'.event_queue)]_vars
    /\ [][(pc = "run_forever" /\ window.suspended /\ ~window'.suspended) =>
             /\ pc' = "callback"
             /\ window'.event_queue = Append(window.event_queue, EvIdle)]_vars
    /\ [][(pc = "callback" /\ cb.from = "run_forever") =>
             /\ cb'.win_events = window.event_queue
             /\ browser'.event_queue = window.event_queue
             /\ window'.event_queue = << >>]_vars

\* A Resized arrived while the window was suspended; the first get_events
\* after the window was resumed has handed over its Resize, and Idle after it.
C38_Witness ==
    /\ pc = "cb_servo_get" /\ cb.from = "run_forever"
    /\ budget.platform = 0
    /\ cb.win_events = << EvResize, EvIdle >>
    /\ window.event_queue = << >>

\* The events the coordinator derives from a batch of the run loop's
\* notifications: one for each BrowserCreated and each CloseBrowser.
DerivedFrom(batch) ==
    Cardinality({ i \in 1 .. Len(batch) :
                     batch[i].msg.type \in { "BrowserCreated", "CloseBrowser" } })

\* C39: a tick starts with the coordinator's queue empty; its first forward
\* hands the engine the tick's window events, in order, followed by the events
\* derived from the first batch, also when that batch is empty; every later
\* forward hands over only the events derived from the batch pulled before
\* it; every forward leaves the coordinator's queue empty.
C39_WindowEventsForwardedOnce ==
    /\ [](pc = "callback" => browser.event_queue = << >> /\ servo.received = << >>)
    /\ [][(pc = "cb_forward" /\ pc' = "cb_check") =>
             /\ servo'.received = servo.received \o browser.event_queue
             /\ browser'.event_queue = << >>
             /\ IF \A i \in 1 .. Len(tick_log) : tick_log[i] # "forward"
                THEN /\ servo.received = << >>
                     /\ IsPrefix(cb.win_events, browser.event_queue)
                     /\ Len(browser.event_queue) =
                           Len(cb.win_events) + DerivedFrom(cb.servo_events)
                ELSE /\ IsPrefix(cb.win_events, servo.received)
                     /\ Len(browser.event_queue) = DerivedFrom(cb.servo_events)]_vars
    /\ [](pc \in { "cb_check", "cb_pull", "cb_repaint", "cb_return" } =>
             browser.event_queue = << >> /\ IsPrefix(cb.win_events, servo.received))

\* The engine had nothing to say and was still handed the tick's two window
\* events.
C39_Witness ==
    /\ pc = "cb_check" /\ cb.servo_events = << >>
    /\ Len(cb.win_events) = 2
    /\ servo.received = cb.win_events
    /\ browser.event_queue = << >>

\* C40: the callback's return value becomes stop; once it is true the loop is
\* left in the same step, from the Animating branch and from inside
\* run_forever alike, and nothing runs afterwards.
C40_StopEndsRun ==
    /\ [](stop => pc = "done")
    /\ [][(pc = "cb_return" /\ cb.ret) => (stop' /\ pc' = "done")]_vars
    /\ [][pc = "cb_return" => stop' = cb.ret]_vars
    /\ [][pc # "done"]_vars

\* The callback invoked inside run_forever for the first platform event
\* returned stop, and run has returned.
C40_Witness ==
    /\ pc = "done" /\ stop
    /\ budget.platform = MaxPlatformEvents - 1


====
